---------------------------- MODULE Spec2Model ----------------------------
(***************************************************************************)
(* Real-time voice translation frontend: the result page (Home), the       *)
(* playback queue of TranslationDisplay, the streaming chunker and the     *)
(* windowed base64 encoder of VoiceRecorder, and the per-blob sender of    *)
(* the first VoiceRecorder variant.                                        *)
(*                                                                         *)
(* Each part has its own specification over the shared variables:          *)
(*   Spec        Home + TranslationDisplay (results list, playback queue)  *)
(*   SpecChunker VoiceRecorder realtime branch (processor.onaudioprocess)  *)
(*   SpecRec1    first VoiceRecorder variant (mediaRecorder.ondataavailable)*)
(*   SpecEnc     windowed byte-to-text encoder (String.fromCharCode, btoa) *)
(*   SpecQuant   Float32 to Int16 conversion of onaudioprocess             *)
(*   SpecRec     VoiceRecorder (second variant): startRecording,           *)
(*               stopRecording, the socket handlers, sendAudioToBackend    *)
(*   SpecSock    the socket effect and its connection, with a streaming    *)
(*               recording                                                 *)
(*   SpecTimers  the health probe of the third VoiceRecorder variant and   *)
(*               the auto-refresh of EvaluationMetrics                     *)
(*   SpecButton  the record button of the first VoiceRecorder variant      *)
(*   SpecRecLive, SpecRecAck, SpecDispLive                                 *)
(*               SpecRec and Spec with the events of the browser and the   *)
(*               replies of the backend delivered (weak fairness)          *)
(***************************************************************************)
EXTENDS Integers, Sequences, FiniteSets, TLC

VARIABLES
    \* ---- Home (page) ----
    results,        \* useState results: sequence of [id, valid]
    arrived,        \* number of results handed to handleTranslation so far
    \* ---- TranslationDisplay ----
    rendered,       \* the results prop of the last committed render
    audioQueue,     \* audioQueueRef.current: sequence of [audio, index]
    isPlayingQueue, \* isPlayingQueueRef.current
    playingIndex,   \* useState playingIndex (NULL or a 0-based index)
    audioRef,       \* audioRef.current: NULL or the number of an audio element
    audios,         \* every HTMLAudioElement created so far
    enqLog,         \* history: the result ids pushed on audioQueueRef
    started,        \* history: the result ids whose queue playback was started
    \* ---- VoiceRecorder, realtime branch of startRecording ----
    isRecording,    \* useState isRecording
    connected,      \* socketRef.current?.connected
    sampleRate,     \* audioContext.sampleRate of the session
    audioBuffer,    \* let audioBuffer: Float32Array[] of the onaudioprocess closure
    captured,       \* history: frames delivered to onaudioprocess in the session
    emitted,        \* history: the messages emitted on the socket in the session
    sessionOver,    \* history: stopRecording ended the session
    windowStart,    \* history: frames captured when audioBuffer was last empty
    \* ---- VoiceRecorder, first variant: mediaRecorder.ondataavailable ----
    blobStage,      \* per dataavailable event: where its async handler stands
    rec1Sent,       \* history: event numbers in the order of their audio_chunk
    \* ---- windowed byte-to-text encoder ----
    encBytes,       \* bytes: the Uint8Array view of the Int16Array
    encText,        \* base64: the text produced by btoa, as alphabet positions
    decBytes,       \* the bytes a base64 decoder recovers from encText
    encStage,       \* "input", "encoded" or "decoded"
    \* ---- Float32 to Int16 conversion ----
    qIn,            \* combined[i]: a Float32 sample
    qOut,           \* int16Array[i]
    qStage,         \* "input" or "quantized"
    \* ---- VoiceRecorder (second variant), the whole controller ----
    isProcessing,   \* useState isProcessing
    mode,           \* useState mode: "realtime" or "batch"
    hasMediaDevices,\* navigator.mediaDevices.getUserMedia exists (secure context)
    webmSupported,  \* new MediaRecorder(stream, { mimeType }) accepts audio/webm
    startCalls,     \* history: number of startRecording invocations
    starting,       \* startRecording calls suspended at await getUserMedia:
                    \* the mode each closure captured
    sessions,       \* per resolved getUserMedia: stream, context, MediaRecorder
    streamRef,      \* streamRef.current: NULL or a session number
    audioContextRef,\* audioContextRef.current: NULL or a session number
    mediaRecorderRef,\* mediaRecorderRef.current: NULL or a session number
    audioChunksRef, \* audioChunksRef.current: the session numbers of its blobs
    uploads,        \* the sendAudioToBackend calls
    onErrorLog,     \* history: the onError calls, [message, cause]
    stopAcks,       \* translation_stopped replies owed on this connection
    sessionOnWire,  \* history: start_translation was emitted on the current
                    \* connection and no stop_translation after it
    \* ---- Home: what the socket effect of VoiceRecorder depends on ----
    homeError,      \* useState error of Home: "null" or the message shown
    staleEffect,    \* Home rendered since the socket effect last ran, so the
                    \* onTranslation and onError props are new functions
    \* ---- the socket.io connection made by the socket effect ----
    sockPhase,      \* "opening", "open", "retrying" or "failed" (gave up)
    attempts,       \* the number of the reconnection attempt under way
    failedRun,      \* history: failed connection attempts since the last connect
    sockets,        \* history: number of io() calls
    \* ---- VoiceRecorder, health-probe variant ----
    isConnected,    \* useState isConnected
    healthMounted,  \* the component is mounted
    healthTimer,    \* the interval of setInterval(checkHealth, 5000) is set
    probes,         \* the checkHealth calls
    \* ---- EvaluationMetrics ----
    metricsMounted, \* the component is mounted (showEvaluation of Home)
    autoRefresh,    \* useState autoRefresh
    refreshTimer,   \* the interval of the auto-refresh effect is set
    loading,        \* useState loading
    metricsError,   \* useState error
    summary,        \* useState summary: "null" or "summary"
    summaryCalls,   \* the fetchSummary calls
    resets          \* the resetMetrics calls in flight

dispVars == <<results, arrived, rendered, audioQueue, isPlayingQueue,
              playingIndex, audioRef, audios, enqLog, started>>
chunkVars == <<isRecording, connected, sampleRate, audioBuffer, captured, emitted,
               sessionOver, windowStart>>
rec1Vars == <<blobStage, rec1Sent>>
encVars == <<encBytes, encText, decBytes, encStage>>
quantVars == <<qIn, qOut, qStage>>
\* The controller also reads and writes isRecording, connected and emitted
\* (chunkVars) and results and arrived (dispVars).
recVars == <<isProcessing, mode, hasMediaDevices, webmSupported, startCalls, starting,
             sessions, streamRef, audioContextRef, mediaRecorderRef, audioChunksRef,
             uploads, onErrorLog>>

homeVars == <<homeError, staleEffect>>
sockVars == <<sockPhase, attempts, failedRun, sockets>>

healthVars == <<isConnected, healthMounted, healthTimer, probes>>
metricsVars == <<metricsMounted, autoRefresh, refreshTimer, loading, metricsError,
                 summary, summaryCalls, resets>>
timerVars == <<healthVars, metricsVars>>

vars == <<dispVars, chunkVars, rec1Vars, encVars, quantVars, recVars, stopAcks, sessionOnWire,
          homeVars, sockVars, timerVars>>

\* handleTranslation and clearResults also write homeVars.
nonHomeVars == <<chunkVars, rec1Vars, encVars, quantVars, recVars, stopAcks, sessionOnWire, sockVars,
                 timerVars>>
nonDispVars == <<nonHomeVars, homeVars>>
nonTimerVars == <<dispVars, chunkVars, rec1Vars, encVars, quantVars, recVars, stopAcks, sessionOnWire,
                  homeError, sockVars>>
\* The socket handlers also write stopAcks, sockPhase, attempts and failedRun.
nonChunkVars == <<dispVars, rec1Vars, encVars, quantVars, recVars, homeVars, sockets,
                  timerVars>>
nonRec1Vars == <<dispVars, chunkVars, encVars, quantVars, recVars, stopAcks, sessionOnWire, homeVars,
                 sockVars, timerVars>>
nonEncVars == <<dispVars, chunkVars, rec1Vars, quantVars, recVars, stopAcks, sessionOnWire, homeVars,
                sockVars, timerVars>>
nonQuantVars == <<dispVars, chunkVars, rec1Vars, encVars, recVars, stopAcks, sessionOnWire, homeVars,
                  sockVars, timerVars>>
\* The controller also writes homeVars (through onTranslation and onError).
nonRecVars == <<rendered, audioQueue, isPlayingQueue, playingIndex, audioRef, audios,
                enqLog, started, sampleRate, audioBuffer, captured, sessionOver,
                windowStart, rec1Vars, encVars, quantVars, sockVars, timerVars>>

\* null of playingIndex and audioRef.current (indices and element numbers are >= 0)
NULL == -1

\* Bounds of the playback model.
MaxResults == 3
MaxAudios == 4

(***************************************************************************)
(* HTMLAudioElement.  phase:                                               *)
(*   loading  play() was called, the data: URL is not loaded yet, the      *)
(*            play() promise is pending                                    *)
(*   playing  loaded and not paused                                        *)
(*   aborted  paused while loading an undecodable payload: the load still  *)
(*            fails later and fires the error event                        *)
(*   paused / ended / failed   no further event                            *)
(* catchPending: the play() promise was rejected and the .catch callback   *)
(* of playNextInQueue has not run yet (playAudio attaches no catch).       *)
(* pause() rejects a pending play() promise; a failed load fires the error *)
(* event and rejects a pending play() promise, paused or not; ended fires  *)
(* only on an element that is not paused.  A payload either decodes or     *)
(* does not (valid); autoplay blocking and errors in mid-playback are left *)
(* out.                                                                    *)
(***************************************************************************)
Phases == {"loading", "playing", "aborted", "paused", "ended", "failed"}

\* The state the handlers of TranslationDisplay read and write.
Disp == [queue |-> audioQueue, isPlaying |-> isPlayingQueue, idx |-> playingIndex,
         ref |-> audioRef, audios |-> audios, started |-> started]

\* HTMLMediaElement.pause() on element a.
Pause(d, a) ==
    LET e == d.audios[a] IN
    IF e.phase = "loading"
    THEN [d EXCEPT !.audios[a].phase = IF e.valid THEN "paused" ELSE "aborted",
                   !.audios[a].catchPending = (e.owner = "queue")]
    ELSE IF e.phase = "playing"
    THEN [d EXCEPT !.audios[a].phase = "paused"]
    ELSE d

\* new Audio(data) followed by audio.play(): the element starts loading.
NewAudio(r, owner, index) ==
    [src |-> r.id, valid |-> r.valid, owner |-> owner, index |-> index,
     phase |-> "loading", catchPending |-> FALSE]

\* playNextInQueue without the setPlayingIndex(null) of its empty-queue branch.
PlayNextInQueueKeepsIndex(d) ==
    IF d.queue = <<>>
    THEN [d EXCEPT !.isPlaying = FALSE]
    ELSE LET e  == Head(d.queue)
             d1 == [d EXCEPT !.isPlaying = TRUE, !.queue = Tail(d.queue)]
             d2 == IF d1.ref # NULL THEN Pause(d1, d1.ref) ELSE d1
         IN [d2 EXCEPT !.audios = Append(d2.audios, NewAudio(e.audio, "queue", e.index)),
                       !.ref = Len(d2.audios) + 1,
                       !.idx = e.index,
                       !.started = Append(d2.started, e.audio.id)]

\* playNextInQueue
PlayNextInQueue(d) ==
    IF d.queue = <<>>
    THEN [d EXCEPT !.isPlaying = FALSE, !.idx = NULL]
    ELSE LET e  == Head(d.queue)
             d1 == [d EXCEPT !.isPlaying = TRUE, !.queue = Tail(d.queue)]
             d2 == IF d1.ref # NULL THEN Pause(d1, d1.ref) ELSE d1
         IN [d2 EXCEPT !.audios = Append(d2.audios, NewAudio(e.audio, "queue", e.index)),
                       !.ref = Len(d2.audios) + 1,
                       !.idx = e.index,
                       !.started = Append(d2.started, e.audio.id)]

\* playAudio(audioBase64, index)
PlayAudioOp(d, r, index) ==
    LET d1 == IF d.ref # NULL THEN [Pause(d, d.ref) EXCEPT !.ref = NULL] ELSE d
    IN [d1 EXCEPT !.audios = Append(d1.audios, NewAudio(r, "manual", index)),
                  !.ref = Len(d1.audios) + 1,
                  !.idx = index]

\* stopAudio
StopAudioOp(d) ==
    IF d.ref # NULL
    THEN [Pause(d, d.ref) EXCEPT !.ref = NULL, !.idx = NULL]
    ELSE d

\* audio.onended / audio.onerror as registered by playNextInQueue or playAudio
OnDone(d, a) ==
    IF d.audios[a].owner = "queue"
    THEN PlayNextInQueue(d)
    ELSE [d EXCEPT !.idx = NULL, !.ref = NULL]

\* An element that can raise no further event keeps only its final phase.
Settle(e) ==
    IF e.phase \in {"paused", "ended", "failed"} /\ ~e.catchPending
    THEN [src |-> 0, valid |-> TRUE, owner |-> "none", index |-> 0,
          phase |-> e.phase, catchPending |-> FALSE]
    ELSE e

\* Writes the handler's result back; the element cap bounds the model.
SetDisp(d) ==
    /\ Len(d.audios) <= MaxAudios
    /\ audioQueue' = d.queue
    /\ isPlayingQueue' = d.isPlaying
    /\ playingIndex' = d.idx
    /\ audioRef' = d.ref
    /\ audios' = [a \in DOMAIN d.audios |-> Settle(d.audios[a])]
    /\ started' = d.started

(***************************************************************************)
(* Home                                                                    *)
(***************************************************************************)
\* handleTranslation: setResults(prev => [...prev, result]); setError(null)
HandleTranslation ==
    /\ UNCHANGED nonHomeVars
    /\ arrived < MaxResults
    /\ \E v \in BOOLEAN :
          results' = Append(results, [id |-> arrived + 1, valid |-> v])
    /\ arrived' = arrived + 1
    /\ homeError' = "null"
    /\ staleEffect' = TRUE
    /\ UNCHANGED <<rendered, audioQueue, isPlayingQueue, playingIndex, audioRef,
                   audios, enqLog, started>>

\* clearResults: setResults([]); setError(null); the Clear button is rendered
\* when results.length > 0
ClearResults ==
    /\ UNCHANGED nonHomeVars
    /\ Len(rendered) > 0
    /\ results' = <<>>
    /\ homeError' = "null"
    /\ staleEffect' = TRUE
    /\ UNCHANGED <<arrived, rendered, audioQueue, isPlayingQueue, playingIndex,
                   audioRef, audios, enqLog, started>>

(***************************************************************************)
(* TranslationDisplay                                                      *)
(***************************************************************************)
\* The body of useEffect(..., [results.length]) for the committed results.
EffectOp(d, rs) ==
    LET latestIndex == Len(rs) - 1
        d1 == [d EXCEPT !.queue = Append(d.queue, [audio |-> rs[Len(rs)], index |-> latestIndex])]
    IN IF ~d1.isPlaying THEN PlayNextInQueue(d1) ELSE d1

\* React commits a render of the pending results; the effect runs when
\* results.length differs from the previous render's.
Commit ==
    /\ UNCHANGED nonDispVars
    /\ results # rendered
    /\ rendered' = results
    /\ IF Len(results) # Len(rendered) /\ Len(results) > 0
       THEN /\ SetDisp(EffectOp(Disp, results))
            /\ enqLog' = Append(enqLog, results[Len(results)].id)
       ELSE UNCHANGED <<audioQueue, isPlayingQueue, playingIndex, audioRef, audios,
                        enqLog, started>>
    /\ UNCHANGED <<results, arrived>>

\* Click on a card's Play button (shown when playingIndex # index).
PlayAudio ==
    /\ UNCHANGED nonDispVars
    /\ \E i \in 0..(Len(rendered) - 1) :
          /\ playingIndex # i
          /\ SetDisp(PlayAudioOp(Disp, rendered[i + 1], i))
    /\ UNCHANGED <<results, arrived, rendered, enqLog>>

\* Click on a card's Stop button (shown when playingIndex = index).
StopAudio ==
    /\ UNCHANGED nonDispVars
    /\ playingIndex # NULL
    /\ playingIndex < Len(rendered)
    /\ SetDisp(StopAudioOp(Disp))
    /\ UNCHANGED <<results, arrived, rendered, enqLog>>

\* The element finished loading and starts to play; the play() promise resolves.
LoadOk ==
    /\ UNCHANGED nonDispVars
    /\ \E a \in DOMAIN audios :
          /\ audios[a].phase = "loading"
          /\ audios[a].valid
          /\ audios' = [audios EXCEPT ![a].phase = "playing"]
    /\ UNCHANGED <<results, arrived, rendered, audioQueue, isPlayingQueue,
                   playingIndex, audioRef, enqLog, started>>

\* Playback reached the end of an element that is not paused: audio.onended.
Ended ==
    /\ UNCHANGED nonDispVars
    /\ \E a \in DOMAIN audios :
          /\ audios[a].phase = "playing"
          /\ SetDisp(OnDone([Disp EXCEPT !.audios[a].phase = "ended"], a))
    /\ UNCHANGED <<results, arrived, rendered, enqLog>>

\* The payload cannot be loaded: the error event fires (audio.onerror) and a
\* still pending play() promise is rejected.
MediaError ==
    /\ UNCHANGED nonDispVars
    /\ \E a \in DOMAIN audios :
          /\ audios[a].phase \in {"loading", "aborted"}
          /\ ~audios[a].valid
          /\ SetDisp(OnDone([Disp EXCEPT
                 !.audios[a].phase = "failed",
                 !.audios[a].catchPending =
                     \/ audios[a].catchPending
                     \/ (audios[a].phase = "loading" /\ audios[a].owner = "queue")], a))
    /\ UNCHANGED <<results, arrived, rendered, enqLog>>

\* audio.play().catch(...) of playNextInQueue runs for a rejected promise.
PlayRejected ==
    /\ UNCHANGED nonDispVars
    /\ \E a \in DOMAIN audios :
          /\ audios[a].catchPending
          /\ SetDisp(PlayNextInQueue([Disp EXCEPT !.audios[a].catchPending = FALSE]))
    /\ UNCHANGED <<results, arrived, rendered, enqLog>>

(***************************************************************************)
(* Playback queue: claims                                                  *)
(***************************************************************************)
Playing == {a \in DOMAIN audios : audios[a].phase = "playing"}

Count(seq, x) == Cardinality({k \in DOMAIN seq : seq[k] = x})

\* C1: at most one audio payload is in the playing state (started and not
\* paused, ended or errored), whatever the interleaving of arrivals, queue
\* auto-play, manual replay, stopAudio and playback callbacks.
C1_AtMostOnePlaying == Cardinality(Playing) <= 1

\* C2: once every arrival is rendered, each result handed to onTranslation
\* has been pushed on the playback queue exactly once.
C2_EnqueuedExactlyOnce ==
    (results = rendered) => \A id \in 1..arrived : Count(enqLog, id) = 1

\* C3: the queue's play-start events follow the arrival order R1, R2, R3
\* exactly (no result skipped or reordered) and two queue entries never play
\* at the same time.
C3_QueuePlaysInArrivalOrder ==
    /\ \A k \in DOMAIN started : started[k] = k
    /\ Cardinality({a \in Playing : audios[a].owner = "queue"}) <= 1

\* A completion or failure callback (onended, onerror, play().catch) of the
\* element a runs in this step.
QueueCallbackOf(a) ==
    \/ audios[a].phase = "playing" /\ audios'[a].phase = "ended"
    \/ audios[a].phase = "loading" /\ audios'[a].phase = "failed"
    \/ audios[a].phase = "failed" /\ audios[a].catchPending /\ audios'[a].phase = "failed"
       /\ ~audios'[a].catchPending

\* C4: when the entry the queue is playing ends or fails, the oldest remaining
\* entry is dequeued and started at once (it becomes the current element, the
\* queue stays marked playing, playingIndex is its index); with an empty
\* queue the queue becomes idle: isPlayingQueue false, playingIndex null.
C4_QueueAdvances ==
    [][\A a \in DOMAIN audios :
          (audioRef = a /\ audios[a].owner = "queue" /\ QueueCallbackOf(a)) =>
              IF audioQueue # <<>>
              THEN /\ audioQueue' = Tail(audioQueue)
                   /\ Len(audios') = Len(audios) + 1
                   /\ audios'[Len(audios')].src = Head(audioQueue).audio.id
                   /\ audios'[Len(audios')].owner = "queue"
                   /\ audios'[Len(audios')].phase = "loading"
                   /\ audioRef' = Len(audios')
                   /\ isPlayingQueue'
                   /\ playingIndex' = Head(audioQueue).index
                   /\ started' = Append(started, Head(audioQueue).audio.id)
              ELSE /\ ~isPlayingQueue'
                   /\ playingIndex' = NULL
                   /\ Len(audios') = Len(audios)
                   /\ started' = started]_vars

\* C4 witness: the first entry played to its end and the second, queued
\* meanwhile, is the current element of the queue.
C4_Witness ==
    /\ Len(audios) = 2
    /\ audios[1].phase = "ended"
    /\ audios[2].owner = "queue" /\ audios[2].src = 2 /\ audios[2].phase = "loading"
    /\ audioRef = 2 /\ isPlayingQueue /\ playingIndex = 1
    /\ started = <<1, 2>> /\ audioQueue = <<>>

\* C5: manual replay stops any current playback and leaves the queued
\* entries and their order unchanged (the displaced item is not requeued).
C5_ManualReplayFrame ==
    [][(Len(audios') = Len(audios) + 1 /\ audios'[Len(audios')].owner = "manual") =>
          /\ audioQueue' = audioQueue
          /\ \A a \in DOMAIN audios : audios'[a].phase # "playing"]_vars

\* The play().catch callback of the queue element a runs in this step after
\* the element's error event has already run its onerror callback.
SecondFailureCallbackOf(a) ==
    /\ audios[a].phase = "failed"
    /\ audios[a].catchPending
    /\ ~audios'[a].catchPending

\* C27: a playback failure of one queued entry advances the queue once.
\* When the failure is reported a second time (the rejected play() promise
\* after the error event), the queue is left as it is: no further entry is
\* dequeued or started, the current element is not paused and the queue is
\* not marked idle.
C27_FailureAdvancesOnce ==
    [][\A a \in DOMAIN audios :
          SecondFailureCallbackOf(a) =>
              /\ UNCHANGED <<audioQueue, isPlayingQueue, playingIndex, audioRef, started>>
              /\ \A b \in DOMAIN audios : audios'[b].phase = audios[b].phase]_vars

\* The first report of the failure does advance the queue by one entry.
C27_FirstReportAdvances ==
    [][\A a \in DOMAIN audios :
          (audioRef = a /\ audios[a].owner = "queue" /\ audios[a].phase = "loading"
             /\ audios'[a].phase = "failed" /\ audioQueue # <<>>) =>
              /\ audioQueue' = Tail(audioQueue)
              /\ started' = Append(started, Head(audioQueue).audio.id)]_vars

\* The second entry was cut off by the failure of the first: the first
\* failed to load, the second was started by its error event and paused by
\* its play().catch, which started the third; nothing was played by hand.
C27_SecondEntryCutOff ==
    /\ Len(audios) = 3
    /\ audios[1].phase = "failed"
    /\ audios[2].phase = "paused"
    /\ audios[3].owner = "queue" /\ audios[3].src = 3
    /\ audioRef = 3 /\ started = <<1, 2, 3>>
    /\ Len(results) = 3 /\ results[2].valid


\* C39: whenever playingIndex is not null it is an index of the rendered
\* results and the current audio element, loading or playing, is the audio
\* of that result; whenever an element is playing playingIndex is not null.
C39_PlayingIndexConsistent ==
    /\ playingIndex # NULL =>
          /\ playingIndex < Len(rendered)
          /\ audioRef # NULL
          /\ audios[audioRef].phase \in {"loading", "playing"}
          /\ audios[audioRef].src = rendered[playingIndex + 1].id
    /\ Playing # {} => playingIndex # NULL

\* The list was cleared while its first result was playing: the element
\* plays on and playingIndex is 0 with no result rendered.
C39_HighlightAfterClear ==
    /\ rendered = <<>> /\ results = <<>>
    /\ playingIndex = 0
    /\ audioRef # NULL /\ audios[audioRef].phase = "playing"

\* An element is playing and no card is highlighted.
C39_PlayingUnhighlighted ==
    /\ Playing # {}
    /\ playingIndex = NULL
    /\ results = rendered /\ Len(rendered) > 0

\* Every entry pushed on the queue has been started and the queue is idle.
QueueDrained ==
    /\ audioQueue = <<>>
    /\ ~isPlayingQueue
    /\ \A k \in DOMAIN enqLog : Count(started, enqLog[k]) >= 1

\* C31: every enqueued entry eventually starts playing and the queue
\* eventually becomes idle, when every render is committed and every
\* started playback loads, ends or fails unless it is paused, also when the
\* user replays a card or stops the playback while a queue entry plays.
C31_QueueDrains == <>[]QueueDrained

\* The queue is stalled: it is marked playing, no element can raise an
\* event any more, and an enqueued entry waits that was never started.
C31_Stalled ==
    /\ isPlayingQueue
    /\ audioQueue # <<>>
    /\ results = rendered
    /\ \A a \in DOMAIN audios :
          audios[a].phase \in {"paused", "ended", "failed"} /\ ~audios[a].catchPending

\* A stalled queue always holds an element that was paused before it ended.
C31_StallNeedsPause ==
    C31_Stalled => \E a \in DOMAIN audios : audios[a].phase = "paused"

InitDisp ==
    /\ results = <<>>
    /\ arrived = 0
    /\ rendered = <<>>
    /\ audioQueue = <<>>
    /\ isPlayingQueue = FALSE
    /\ playingIndex = NULL
    /\ audioRef = NULL
    /\ audios = <<>>
    /\ enqLog = <<>>
    /\ started = <<>>

(***************************************************************************)
(* VoiceRecorder (second variant), realtime branch of startRecording:      *)
(* the ScriptProcessor chunker.  A Float32Array frame is the run of        *)
(* `length` consecutive samples of capture event n; the combined array is  *)
(* the sequence of the runs copied into it, each with its offset.          *)
(***************************************************************************)
bufferSize == 4096
CHUNK_DURATION == 2

\* Bound: capture events per session.
MaxFrames == 25

\* audioContext.sampleRate: 8192 makes the threshold a whole number of frames,
\* 16000 is the rate asked of getUserMedia, 44100 and 48000 are device rates.
SampleRates == {8192, 16000, 44100, 48000}

\* Math.floor(CHUNK_DURATION * sampleRate)
SamplesPerChunk(rate) == CHUNK_DURATION * rate

\* e.inputBuffer.getChannelData(0) of capture event n, copied
Frame(n) == [n |-> n, length |-> bufferSize]

\* audioBuffer.reduce((sum, arr) => sum + arr.length, 0)
RECURSIVE TotalSamples(_)
TotalSamples(buf) ==
    IF buf = <<>> THEN 0 ELSE buf[1].length + TotalSamples(Tail(buf))

\* for (const buf of audioBuffer) { combined.set(buf, offset); offset += buf.length }
RECURSIVE CombineFrom(_, _)
CombineFrom(buf, offset) ==
    IF buf = <<>> THEN <<>>
    ELSE <<[n |-> buf[1].n, at |-> offset, length |-> buf[1].length]>>
         \o CombineFrom(Tail(buf), offset + buf[1].length)

Combined(buf) == CombineFrom(buf, 0)

ReachedThresholdStrict(totalSamples, samplesPerChunk) == totalSamples > samplesPerChunk

\* if (totalSamples >= samplesPerChunk)
ReachedThreshold(totalSamples, samplesPerChunk) == totalSamples >= samplesPerChunk

Msg(type, audio, rate) == [type |-> type, audio |-> audio, sample_rate |-> rate]

OnAudioProcessKeepsBuffer(buf, frame, rate, conn) ==
    LET all == Append(buf, frame)
        totalSamples == TotalSamples(all)
    IN IF ReachedThreshold(totalSamples, SamplesPerChunk(rate))
       THEN [buffer |-> IF conn THEN <<>> ELSE all,
             emit |-> IF conn THEN <<Msg("audio_chunk", Combined(all), rate)>> ELSE <<>>]
       ELSE [buffer |-> all, emit |-> <<>>]

\* processor.onaudioprocess: the new buffer and the messages emitted.  The
\* audio field stands for the base64 text of the quantized samples.
OnAudioProcessOp(buf, frame, rate, conn) ==
    LET all == Append(buf, frame)
        totalSamples == TotalSamples(all)
    IN IF ReachedThreshold(totalSamples, SamplesPerChunk(rate))
       THEN [buffer |-> <<>>,
             emit |-> IF conn THEN <<Msg("audio_chunk", Combined(all), rate)>> ELSE <<>>]
       ELSE [buffer |-> all, emit |-> <<>>]

\* reconnectionAttempts of the io() options
reconnectionAttempts == 5

\* The connection attempt under way succeeds: socket.on('connect').
SocketConnect ==
    /\ ~connected
    /\ sockPhase \in {"opening", "retrying"}
    /\ connected' = TRUE
    /\ sockPhase' = "open"
    /\ attempts' = 0
    /\ failedRun' = 0
    /\ UNCHANGED <<isRecording, sampleRate, audioBuffer, captured, emitted,
                   sessionOver, windowStart>>
    /\ UNCHANGED <<stopAcks, sessionOnWire>>
    /\ UNCHANGED nonChunkVars

\* The connection is lost (transport close, ping timeout):
\* socket.on('disconnect').  The replies the backend owed on the connection
\* are lost with it, and the first reconnection attempt is scheduled.
SocketDisconnect ==
    /\ connected
    /\ connected' = FALSE
    /\ sockPhase' = "retrying"
    /\ attempts' = 1
    /\ UNCHANGED failedRun
    /\ UNCHANGED <<isRecording, sampleRate, audioBuffer, captured, emitted,
                   sessionOver, windowStart>>
    /\ stopAcks' = 0
    /\ sessionOnWire' = FALSE
    /\ UNCHANGED nonChunkVars

\* startRecording, branch mode === 'realtime' && socketRef.current?.connected
StartRecordingRealtime ==
    /\ ~isRecording
    /\ connected
    /\ \E r \in SampleRates : sampleRate' = r
    /\ emitted' = <<Msg("start_translation", <<>>, 0)>>
    /\ audioBuffer' = <<>>
    /\ captured' = 0
    /\ windowStart' = 0
    /\ isRecording' = TRUE
    /\ sessionOver' = FALSE
    /\ UNCHANGED connected
    /\ sessionOnWire' = TRUE
    /\ UNCHANGED <<stopAcks, sockPhase, attempts, failedRun>>
    /\ UNCHANGED nonChunkVars

\* processor.onaudioprocess
OnAudioProcess ==
    /\ isRecording
    /\ captured < MaxFrames
    /\ LET r == OnAudioProcessOp(audioBuffer, Frame(captured + 1), sampleRate, connected)
       IN /\ audioBuffer' = r.buffer
          /\ emitted' = emitted \o r.emit
          /\ windowStart' = IF r.buffer = <<>> THEN captured + 1 ELSE windowStart
    /\ captured' = captured + 1
    /\ UNCHANGED <<isRecording, connected, sampleRate, sessionOver>>
    /\ UNCHANGED <<stopAcks, sessionOnWire, sockPhase, attempts, failedRun>>
    /\ UNCHANGED nonChunkVars

\* stopRecording of a realtime session
StopRecording ==
    /\ isRecording
    /\ emitted' = IF connected THEN Append(emitted, Msg("stop_translation", <<>>, 0))
                  ELSE emitted
    /\ isRecording' = FALSE
    /\ sessionOver' = TRUE
    /\ UNCHANGED <<connected, sampleRate, audioBuffer, captured, windowStart>>
    /\ sessionOnWire' = FALSE
    /\ UNCHANGED <<stopAcks, sockPhase, attempts, failedRun>>
    /\ UNCHANGED nonChunkVars

(***************************************************************************)
(* The socket effect of VoiceRecorder, useEffect(..., [onTranslation,      *)
(* onError]): its cleanup disconnects the socket and its body makes a new  *)
(* one with io(API_URL, { reconnection: true, reconnectionDelay: 1000,     *)
(* reconnectionAttempts: 5 }).  The Manager of socket.io-client opens the  *)
(* connection at once; when the first open fails, or when an open          *)
(* connection is lost, it schedules reconnection attempts 1, 2, ... and    *)
(* gives up (reconnect_failed) when attempt number reconnectionAttempts    *)
(* has failed.  A disconnect asked for by the server, after which the      *)
(* Manager does not reconnect, is left out.                                *)
(***************************************************************************)
\* Bounds: io() calls, and the count of consecutive failed attempts.
MaxSockets == 3
MaxFailedRun == 8

\* The connection attempt under way fails (connect_error).
ConnectFails ==
    /\ ~connected
    /\ sockPhase \in {"opening", "retrying"}
    /\ failedRun < MaxFailedRun
    /\ failedRun' = failedRun + 1
    /\ IF sockPhase = "opening"
       THEN sockPhase' = "retrying" /\ attempts' = 1
       ELSE IF attempts >= reconnectionAttempts
            THEN sockPhase' = "failed" /\ attempts' = 0
            ELSE sockPhase' = "retrying" /\ attempts' = attempts + 1
    /\ UNCHANGED <<chunkVars, stopAcks, sessionOnWire, sockets>>
    /\ UNCHANGED <<dispVars, rec1Vars, encVars, quantVars, recVars, homeVars, timerVars>>

\* The user changes a state of Home (language selectors, swapLanguages, the
\* Stats and Metrics toggles): Home renders.
HomeRender ==
    /\ ~staleEffect
    /\ staleEffect' = TRUE
    /\ UNCHANGED <<homeError, chunkVars, stopAcks, sessionOnWire, sockVars>>
    /\ UNCHANGED <<dispVars, rec1Vars, encVars, quantVars, recVars, timerVars>>

\* VoiceRecorder rendered with new onTranslation and onError: the cleanup of
\* the socket effect (socket.disconnect(), which fires 'disconnect' on a
\* connected socket) and its body (a new socket, socketRef.current = socket).
SocketEffect ==
    /\ staleEffect
    /\ sockets < MaxSockets
    /\ staleEffect' = FALSE
    /\ sockets' = sockets + 1
    /\ connected' = FALSE
    /\ stopAcks' = 0
    /\ sessionOnWire' = FALSE
    /\ sockPhase' = "opening"
    /\ attempts' = 0
    /\ UNCHANGED <<failedRun, homeError>>
    /\ UNCHANGED <<isRecording, sampleRate, audioBuffer, captured, emitted,
                   sessionOver, windowStart>>
    /\ UNCHANGED <<dispVars, rec1Vars, encVars, quantVars, recVars, timerVars>>

\* C21: the failed connection attempts that follow one another never exceed
\* 5 while the recorder is mounted; with the fifth failure after a lost
\* connection the session is in the terminal disconnected state, and in that
\* state no further connection attempt is made.
C21_BoundedReconnection ==
    /\ [](failedRun <= reconnectionAttempts)
    /\ [][(failedRun' = failedRun + 1 /\ failedRun' = reconnectionAttempts)
             => sockPhase' = "failed"]_vars
    /\ [][sockPhase = "failed" => sockPhase' = "failed"]_vars

\* What the Manager does on its own: it gives up with the fifth failed
\* reconnection attempt, and an open that failed at first is not counted.
ManagerGivesUp ==
    /\ [][(failedRun' = failedRun + 1 /\ sockets' = sockets) =>
             IF attempts = reconnectionAttempts
             THEN sockPhase' = "failed"
             ELSE sockPhase' = "retrying"]_vars
    /\ [][(sockPhase = "failed" /\ sockets' = sockets) => sockPhase' = "failed"]_vars

(***************************************************************************)
(* Streaming chunker: claims                                               *)
(***************************************************************************)
RECURSIVE RunSamples(_)
RunSamples(runs) ==
    IF runs = <<>> THEN 0 ELSE runs[1].length + RunSamples(Tail(runs))

RECURSIVE EmittedSamples(_)
EmittedSamples(msgs) ==
    IF msgs = <<>> THEN 0 ELSE RunSamples(msgs[1].audio) + EmittedSamples(Tail(msgs))

\* The chunk made of capture events from+1 .. to, in arrival order, one
\* frame after the other.
ChunkOf(from, to, rate) ==
    Msg("audio_chunk",
        [k \in 1..(to - from) |->
            [n |-> from + k, at |-> (k - 1) * bufferSize, length |-> bufferSize]],
        rate)

\* C6: when the session has ended, the samples emitted across all chunks
\* equal N x F, the samples of the N captured frames (nothing skipped,
\* truncated or duplicated, a final partial chunk being flushed).
C6_AllSamplesEmitted ==
    sessionOver => EmittedSamples(emitted) = captured * bufferSize

\* C7 as claimed: each frame is appended; when the accumulated count reaches
\* the threshold exactly one chunk is emitted, the concatenation in arrival
\* order of the frames accumulated since the previous emission, and the
\* buffer is empty afterwards.
C7_EmitsOneChunkPerWindow ==
    [][captured' = captured + 1 =>
          IF (captured + 1 - windowStart) * bufferSize >= SamplesPerChunk(sampleRate)
          THEN /\ emitted' = Append(emitted, ChunkOf(windowStart, captured + 1, sampleRate))
               /\ audioBuffer' = <<>>
          ELSE /\ audioBuffer' = Append(audioBuffer, Frame(captured + 1))
               /\ emitted' = emitted]_vars

\* C7 amended: each frame is appended; when the accumulated count reaches the
\* threshold the buffer is emptied, and exactly one chunk, the concatenation
\* in arrival order of the frames accumulated since the buffer was last
\* emptied, is emitted if the socket is connected and none if it is not.
C7_EmitsOrDropsWindow ==
    [][captured' = captured + 1 =>
          IF (captured + 1 - windowStart) * bufferSize >= SamplesPerChunk(sampleRate)
          THEN /\ emitted' = IF connected
                             THEN Append(emitted, ChunkOf(windowStart, captured + 1, sampleRate))
                             ELSE emitted
               /\ audioBuffer' = <<>>
          ELSE /\ audioBuffer' = Append(audioBuffer, Frame(captured + 1))
               /\ emitted' = emitted]_vars

\* C7 witness: one window was dropped while disconnected and the next one
\* has just been emitted.
C7_Witness ==
    /\ isRecording
    /\ audioBuffer = <<>>
    /\ Len(emitted) = 2
    /\ emitted[2].type = "audio_chunk"
    /\ emitted[2].audio[1].n > 1
    /\ emitted[2].audio[Len(emitted[2].audio)].n = captured

\* C8: every emitted chunk has T <= c < T + F samples.
C8_ChunkSizeBounds ==
    \A k \in DOMAIN emitted :
        emitted[k].type = "audio_chunk" =>
            LET c == RunSamples(emitted[k].audio)
                T == SamplesPerChunk(emitted[k].sample_rate)
            IN T <= c /\ c < T + bufferSize

\* C8 witness: a chunk of exactly T samples (the threshold is a whole number
\* of frames).
C8_Witness ==
    \E k \in DOMAIN emitted :
        /\ emitted[k].type = "audio_chunk"
        /\ RunSamples(emitted[k].audio) = SamplesPerChunk(emitted[k].sample_rate)

\* A chunk that exceeds T by part of a frame.
C8_WitnessAbove ==
    \E k \in DOMAIN emitted :
        /\ emitted[k].type = "audio_chunk"
        /\ RunSamples(emitted[k].audio) > SamplesPerChunk(emitted[k].sample_rate)

\* The capture event of the step fills the window.
WindowFills ==
    /\ captured' = captured + 1
    /\ (captured + 1 - windowStart) * bufferSize >= SamplesPerChunk(sampleRate)

\* C24: for the whole recording every filled window is sent: while
\* isRecording is true and the transport has not lost or given up the
\* connection, the capture event that fills the window emits its
\* audio_chunk, also after translation results have been received.
C24_EveryWindowSent ==
    [][(WindowFills /\ isRecording /\ sockPhase \notin {"retrying", "failed"}) =>
          emitted' = Append(emitted, ChunkOf(windowStart, captured + 1, sampleRate))]_vars

\* The same before the first result: as long as Home has not rendered again
\* the socket of the recording is the one that was connected at its start.
C24_SentUntilHomeRenders ==
    [][(WindowFills /\ isRecording /\ sockPhase \notin {"retrying", "failed"}
          /\ sockets = 1 /\ ~staleEffect) =>
          emitted' = Append(emitted, ChunkOf(windowStart, captured + 1, sampleRate))]_vars

\* A window was lost after a translation result although the transport never
\* failed: the socket made by the effect is still opening.
C24_WindowLostAfterResult ==
    /\ isRecording /\ arrived > 0 /\ failedRun = 0
    /\ sockPhase = "opening" /\ sockets = 2
    /\ audioBuffer = <<>> /\ windowStart = captured /\ captured > 0
    /\ Len(emitted) = 1

\* The audio_chunk messages among the first n messages.
ChunksIn(msgs) == {k \in DOMAIN msgs : msgs[k].type = "audio_chunk"}

\* C29: a window that fills while the socket is disconnected is neither sent
\* nor kept: that step emits nothing and empties the buffer; a chunk emitted
\* later holds only frames captured after the buffer was last emptied, so
\* the frames of a dropped window are never sent; a step emits at most one
\* chunk and no frame is in two chunks.
C29_DroppedWindowGone ==
    /\ [][(WindowFills /\ ~connected) =>
              (emitted' = emitted /\ audioBuffer' = <<>>)]_vars
    /\ [][captured' = captured + 1 =>
              /\ Len(emitted') <= Len(emitted) + 1
              /\ \A k \in ChunksIn(emitted') \ DOMAIN emitted :
                    \A i \in DOMAIN emitted'[k].audio :
                        emitted'[k].audio[i].n > windowStart]_vars
    /\ [](\A k, l \in ChunksIn(emitted) :
              k < l => emitted[k].audio[Len(emitted[k].audio)].n < emitted[l].audio[1].n)
    /\ [](\A i \in DOMAIN audioBuffer : audioBuffer[i].n > windowStart)

\* C29 witness: between two emitted chunks a whole window is missing: it
\* filled while the socket was disconnected and was not sent afterwards.
C29_Witness ==
    /\ isRecording /\ connected
    /\ Len(emitted) = 3
    /\ emitted[2].type = "audio_chunk" /\ emitted[3].type = "audio_chunk"
    /\ emitted[3].audio[1].n
          >= emitted[2].audio[Len(emitted[2].audio)].n + 1 + Len(emitted[2].audio)
    /\ emitted[3].audio[Len(emitted[3].audio)].n = captured

\* The step emits a message of the given type on the socket.
Emits(type) ==
    /\ emitted' # emitted
    /\ emitted' # <<>>
    /\ emitted'[Len(emitted')].type = type

\* C32: every audio_chunk is emitted on a connection on which the recorder
\* has emitted the start_translation of the session and no stop_translation
\* since: never on a socket made, or a connection re-made, after it.
C32_ChunkOnSessionConnection ==
    [][Emits("audio_chunk") => sessionOnWire]_vars

\* A chunk of a recording was emitted on the socket that the effect made
\* after a translation result, on which no start_translation was emitted.
C32_ChunkOnNewSocket ==
    /\ isRecording /\ connected /\ ~sessionOnWire
    /\ sockets = 2 /\ arrived > 0 /\ failedRun = 0
    /\ Len(emitted) = 2 /\ emitted[2].type = "audio_chunk"
    /\ emitted[2].audio[Len(emitted[2].audio)].n = captured

\* C38: on one connection the emissions follow (start_translation,
\* audio_chunk*, stop_translation)*: start_translation only when no session
\* is open on the connection, audio_chunk and stop_translation only when
\* one is.
C38_ProtocolOrder ==
    [][/\ Emits("start_translation") => ~sessionOnWire
       /\ Emits("audio_chunk") => sessionOnWire
       /\ Emits("stop_translation") => sessionOnWire]_vars

\* The order holds as long as the connection of the session's start is kept.
C38_OrderOnKeptConnection ==
    [][(sockets = 1 /\ sockPhase = "open" /\ sockPhase' = "open" /\ failedRun = 0
          /\ sessionOnWire) =>
          /\ ~Emits("start_translation")
          /\ Emits("stop_translation") => ~sessionOnWire']_vars

\* A stop_translation was emitted on a connection that was re-made during
\* the recording and never saw its start_translation.
C38_StopWithoutStart ==
    /\ ~isRecording /\ sessionOver /\ connected
    /\ sockets = 1
    /\ Len(emitted) = 2
    /\ emitted[1].type = "start_translation" /\ emitted[2].type = "stop_translation"
    /\ captured > 0 /\ windowStart = captured

(***************************************************************************)
(* VoiceRecorder (first variant): mediaRecorder.ondataavailable is an      *)
(* async handler; each dataavailable event runs its own instance, which    *)
(* awaits event.data.arrayBuffer() and audioContext.decodeAudioData()      *)
(* before it emits audio_chunk.                                            *)
(***************************************************************************)
\* Bound: dataavailable events of a recording.
MaxBlobs == 4

\* dataavailable event k+1: the handler starts (or returns at once for an
\* empty blob) and suspends at await event.data.arrayBuffer().
DataAvailable ==
    /\ Len(blobStage) < MaxBlobs
    /\ \E nonEmpty \in BOOLEAN :
          blobStage' = Append(blobStage, IF nonEmpty THEN "arrayBuffer" ELSE "skipped")
    /\ UNCHANGED rec1Sent
    /\ UNCHANGED nonRec1Vars

\* arrayBuffer() resolved: the handler calls decodeAudioData and suspends.
ArrayBufferResolved ==
    /\ \E k \in DOMAIN blobStage :
          /\ blobStage[k] = "arrayBuffer"
          /\ blobStage' = [blobStage EXCEPT ![k] = "decode"]
    /\ UNCHANGED rec1Sent
    /\ UNCHANGED nonRec1Vars

\* decodeAudioData resolved: the handler encodes and emits audio_chunk.
DecodeResolved ==
    /\ \E k \in DOMAIN blobStage :
          /\ blobStage[k] = "decode"
          /\ blobStage' = [blobStage EXCEPT ![k] = "sent"]
          /\ rec1Sent' = Append(rec1Sent, k)
    /\ UNCHANGED nonRec1Vars

\* decodeAudioData rejected: the handler ends without emitting.
DecodeRejected ==
    /\ \E k \in DOMAIN blobStage :
          /\ blobStage[k] = "decode"
          /\ blobStage' = [blobStage EXCEPT ![k] = "failed"]
    /\ UNCHANGED rec1Sent
    /\ UNCHANGED nonRec1Vars

\* C9: the audio_chunk messages are emitted in the order of the capture
\* events that produced their audio, in every recorder variant.
C9_ChunksInCaptureOrder ==
    /\ \A i, j \in DOMAIN rec1Sent : i < j => rec1Sent[i] < rec1Sent[j]
    /\ \A i, j \in DOMAIN emitted :
          (i < j /\ emitted[i].type = "audio_chunk" /\ emitted[j].type = "audio_chunk")
              => emitted[i].audio[1].n < emitted[j].audio[1].n

(***************************************************************************)
(* VoiceRecorder (second variant): the windowed byte-to-text encoder of    *)
(* onaudioprocess.  A binary string is the sequence of its UTF-16 code     *)
(* units; a base64 text is the sequence of the positions of its characters *)
(* in the base64 alphabet, with PadChar for '='.                           *)
(***************************************************************************)
chunkSize == 8192

\* Bound: the inputs span 0 .. MaxWindows whole windows, each with the
\* lengths just below and above the multiple.
MaxWindows == 2

EncLengths ==
    {n \in {w * chunkSize + d : w \in 0..MaxWindows, d \in {-1, 0, 1, 2}} : n >= 0}

ByteSeeds == {0, 77, 255}
ByteSteps == {0, 1, 7}

PadChar == 64

Min(a, b) == IF a < b THEN a ELSE b

WindowEndShort(i, n) == Min(i + chunkSize - 1, n)

\* Math.min(i + chunkSize, bytes.length)
WindowEnd(i, n) == Min(i + chunkSize, n)

\* String.fromCharCode.apply(null, Array.from(chunk)): one code unit per byte
FromCharCode(chunk) == [k \in DOMAIN chunk |-> chunk[k] % 65536]

\* for (let i = 0; i < bytes.length; i += chunkSize) binary += fromCharCode(subarray(i, end))
RECURSIVE BinaryFrom(_, _)
BinaryFrom(bytes, i) ==
    IF i >= Len(bytes) THEN <<>>
    ELSE FromCharCode(SubSeq(bytes, i + 1, WindowEnd(i, Len(bytes))))
         \o BinaryFrom(bytes, i + chunkSize)

\* btoa(binary): every 3 code units (all <= 255) give 4 characters, the last
\* group padded with '='.
Btoa(binary) ==
    LET n == Len(binary)
        At(k) == IF k <= n THEN binary[k] ELSE 0
    IN [j \in 1..(4 * ((n + 2) \div 3)) |->
          LET g  == (j - 1) \div 4
              p  == (j - 1) % 4
              b0 == At(3 * g + 1)
              b1 == At(3 * g + 2)
              b2 == At(3 * g + 3)
          IN CASE p = 0 -> b0 \div 4
               [] p = 1 -> (b0 % 4) * 16 + (b1 \div 16)
               [] p = 2 -> IF 3 * g + 2 > n THEN PadChar ELSE (b1 % 16) * 4 + (b2 \div 64)
               [] p = 3 -> IF 3 * g + 3 > n THEN PadChar ELSE b2 % 64]

\* The windowed encoder: binary string, then btoa.
EncodeWindowed(bytes) == Btoa(BinaryFrom(bytes, 0))

\* Standard base64 decoding (the receiver's side).
Base64Decode(text) ==
    LET m    == Len(text)
        pads == Cardinality({j \in {m - 1, m} : j >= 1 /\ text[j] = PadChar})
    IN [k \in 1..((m \div 4) * 3 - pads) |->
          LET g  == (k - 1) \div 3
              r  == (k - 1) % 3
              s0 == text[4 * g + 1]
              s1 == text[4 * g + 2]
              s2 == text[4 * g + 3]
              s3 == text[4 * g + 4]
          IN CASE r = 0 -> s0 * 4 + (s1 \div 16)
               [] r = 1 -> (s1 % 16) * 16 + (s2 \div 4)
               [] r = 2 -> (s2 % 4) * 64 + s3]

\* The encoder is handed a byte array.
InitEnc ==
    /\ \E n \in EncLengths, seed \in ByteSeeds, step \in ByteSteps :
          encBytes = [k \in 1..n |-> (seed + k * step) % 256]
    /\ encText = <<>>
    /\ decBytes = <<>>
    /\ encStage = "input"

\* const base64 = btoa(binary) after the window loop
Encode ==
    /\ encStage = "input"
    /\ encText' = EncodeWindowed(encBytes)
    /\ encStage' = "encoded"
    /\ UNCHANGED <<encBytes, decBytes>>
    /\ UNCHANGED nonEncVars

\* The receiver decodes the audio field.
Decode ==
    /\ encStage = "encoded"
    /\ decBytes' = Base64Decode(encText)
    /\ encStage' = "decoded"
    /\ UNCHANGED <<encBytes, encText>>
    /\ UNCHANGED nonEncVars

\* C10: decoding the text produced by the windowed encoder yields the bytes
\* given to it, for lengths that are multiples of the window, non-multiples
\* and the empty sequence.
C10_RoundTrip == encStage = "decoded" => decBytes = encBytes

\* C10 witness: a decoded input of more than one window whose length is not
\* a multiple of the window.
C10_Witness ==
    /\ encStage = "decoded"
    /\ Len(encBytes) > chunkSize
    /\ Len(encBytes) % chunkSize # 0
    /\ decBytes = encBytes

(***************************************************************************)
(* VoiceRecorder (second variant): Float32 to Int16 conversion of          *)
(* onaudioprocess.  A Float32 sample is NaN, an infinity or the finite     *)
(* value num / SampleDen (SampleDen a power of two, so every such value is *)
(* a Float32).  The products s * 0x8000 and s * 0x7FFF of a 24-bit         *)
(* significand with a 15-bit or 16-bit integer are exact in a double, so   *)
(* exact rational arithmetic is the arithmetic of the code.                *)
(***************************************************************************)
SampleDen == 65536

\* Bound: the inputs lie within MaxDelta steps of -2, -1, -1/2, 0, 1/2, 1, 2.
MaxDelta == 12

SampleNums ==
    {c * (SampleDen \div 2) + d : c \in -4..4, d \in -MaxDelta..MaxDelta}

\* The finite value num / den (den > 0).
Finite(num, den) == [kind |-> "finite", num |-> num, den |-> den]
NaN == [kind |-> "nan", num |-> 0, den |-> 1]
PosInf == [kind |-> "inf", num |-> 1, den |-> 1]
NegInf == [kind |-> "inf", num |-> -1, den |-> 1]

Samples == {Finite(k, SampleDen) : k \in SampleNums} \cup {NaN, PosInf, NegInf}

\* x < y of two numbers: false when either is NaN
Less(x, y) ==
    CASE x.kind = "nan" \/ y.kind = "nan" -> FALSE
      [] x.kind = "inf" /\ y.kind = "inf" -> x.num < y.num
      [] x.kind = "inf" -> x.num < 0
      [] y.kind = "inf" -> y.num > 0
      [] OTHER -> x.num * y.den < y.num * x.den

\* Math.min(x, y) / Math.max(x, y): NaN when either argument is NaN
MathMin(x, y) ==
    IF x.kind = "nan" \/ y.kind = "nan" THEN NaN ELSE IF Less(y, x) THEN y ELSE x

MathMax(x, y) ==
    IF x.kind = "nan" \/ y.kind = "nan" THEN NaN ELSE IF Less(x, y) THEN y ELSE x

RECURSIVE GCD(_, _)
GCD(a, b) == IF b = 0 THEN a ELSE GCD(b, a % b)

\* x * c for an integer constant c > 0, as a reduced fraction
Times(x, c) ==
    IF x.kind = "finite"
    THEN LET g == GCD(c, x.den) IN Finite(x.num * (c \div g), x.den \div g)
    ELSE x

\* truncation toward zero of num / den
Trunc(num, den) == IF num < 0 THEN -((-num) \div den) ELSE num \div den

\* The store into an Int16Array element: NaN and the infinities give 0, a
\* finite value is truncated and taken modulo 2^16 into [-32768, 32767].
ToInt16(x) ==
    IF x.kind # "finite" THEN 0
    ELSE ((Trunc(x.num, x.den) + 32768) % 65536) - 32768

\* s < 0 ? s * 0x8000 : s * 0x8000
ScaleSymmetric(s) == Times(s, 32768)

\* s < 0 ? s * 0x8000 : s * 0x7FFF
Scale(s) == IF Less(s, Finite(0, 1)) THEN Times(s, 32768) ELSE Times(s, 32767)

\* const s = Math.max(-1, Math.min(1, combined[i]))
Clamp(x) == MathMax(Finite(-1, 1), MathMin(Finite(1, 1), x))

\* int16Array[i] = s < 0 ? s * 0x8000 : s * 0x7FFF
Quantize(x) == ToInt16(Scale(Clamp(x)))

\* combined[i] is any Float32 value.
InitQuant ==
    /\ qIn \in Samples
    /\ qOut = 0
    /\ qStage = "input"

\* One turn of the conversion loop.
QuantizeSample ==
    /\ qStage = "input"
    /\ qOut' = Quantize(qIn)
    /\ qStage' = "quantized"
    /\ UNCHANGED qIn
    /\ UNCHANGED nonQuantVars

\* floor(a * c / SampleDen) for 0 <= a <= SampleDen, by whole and fractional part
FloorScaled(a, c) == (a \div SampleDen) * c + ((a % SampleDen) * c) \div SampleDen

\* The value of clamp(s, -1, 1) * scale truncated toward zero, in exact
\* arithmetic without a 16-bit store.
ClampedScaled(num) ==
    LET c == IF num < -SampleDen THEN -SampleDen
             ELSE IF num > SampleDen THEN SampleDen ELSE num
    IN IF c < 0 THEN -FloorScaled(-c, 32768) ELSE FloorScaled(c, 32767)

\* C11: the 16-bit output of every sample is in [-32768, 32767]; for a finite
\* sample it is clamp(s, -1, 1) scaled by 32768 (negative) or 32767
\* (non-negative) and truncated, without wrap-around; 0 gives 0, 1.0 gives
\* 32767 and -1.0 gives -32768.
C11_QuantizerBounds ==
    qStage = "quantized" =>
        /\ qOut \in -32768..32767
        /\ qIn.kind = "finite" => qOut = ClampedScaled(qIn.num)
        /\ qIn = Finite(0, SampleDen) => qOut = 0
        /\ qIn = Finite(SampleDen, SampleDen) => qOut = 32767
        /\ qIn = Finite(-SampleDen, SampleDen) => qOut = -32768
        /\ qIn = PosInf => qOut = 32767
        /\ qIn = NegInf => qOut = -32768

\* C11 witness: a sample above 1.0 was clamped and quantized to 32767.
C11_Witness ==
    /\ qStage = "quantized"
    /\ qIn.kind = "finite" /\ qIn.num > SampleDen
    /\ qOut = 32767

\* A negative sample whose scaled value has a fraction was truncated toward zero.
C11_WitnessTruncated ==
    /\ qStage = "quantized"
    /\ qIn.kind = "finite" /\ qIn.num < 0 /\ qIn.num > -SampleDen
    /\ qIn.num % 2 # 0
    /\ 2 * qOut > qIn.num

(***************************************************************************)
(* VoiceRecorder (second variant): the controller.  startRecording is an   *)
(* async function: a click runs it up to await getUserMedia, and the rest  *)
(* runs when the promise settles, with the mode its closure captured.  A   *)
(* session is what one resolved getUserMedia created: the MediaStream      *)
(* (tracks), the AudioContext (context), the ScriptProcessor (processor)   *)
(* and the MediaRecorder that was started (rec):                           *)
(*   recording    started                                                  *)
(*   dataPending  stop() was called, dataavailable is not delivered yet    *)
(*   stopPending  dataavailable was delivered, stop is not delivered yet   *)
(*   stopped      the stop event was delivered                             *)
(* The rendered isConnected is socket.connected (connected).               *)
(***************************************************************************)
\* Bounds of the controller model.
MaxStarts == 2
MaxSocketResults == 2
MaxBackendErrors == 1

Modes == {"realtime", "batch"}

RemoveAt(seq, i) == SubSeq(seq, 1, i - 1) \o SubSeq(seq, i + 1, Len(seq))

\* mode is history: the mode the startRecording closure captured.
Session(m, kind, processor, rec) ==
    [tracks |-> "live", context |-> "open", processor |-> processor,
     kind |-> kind, rec |-> rec, mode |-> m]

\* An onError call; cause is history: what made the code call it.
OnErr(message, cause) == [message |-> message, cause |-> cause]

\* The rejections of getUserMedia: DOMExceptions by name, and a TypeError.
DOMExceptionNames ==
    {"NotAllowedError", "NotFoundError", "NotReadableError", "OverconstrainedError",
     "SecurityError", "AbortError"}

MicErrors ==
    [dom : {TRUE}, name : DOMExceptionNames] \cup {[dom |-> FALSE, name |-> "TypeError"]}

\* The catch block of the other two variants: onError('Failed to access microphone')
MicMessageGeneric(error) == "Failed to access microphone"

\* The catch block of startRecording: errorMessage
MicMessage(error) ==
    IF error.dom
    THEN CASE error.name = "NotAllowedError" ->
                  "Microphone permission denied. Please allow microphone access."
           [] error.name = "NotFoundError" ->
                  "No microphone found. Please connect a microphone."
           [] error.name = "NotReadableError" ->
                  "Microphone is in use by another application."
           [] error.name = "OverconstrainedError" ->
                  "Could not satisfy audio constraints."
           [] error.name = "SecurityError" ->
                  "Microphone access blocked. Use HTTPS or localhost."
           [] OTHER -> "Microphone error: error.message"
    ELSE "error.message"

NotAvailable ==
    "Microphone access not available. Please use localhost (not 127.0.0.1) or HTTPS."

\* What the onTranslation and onError calls of a handler do in Home:
\* handleTranslation is setResults and setError(null), handleError is
\* setError(message).  Home renders when a state changed, and every render
\* hands new onTranslation and onError functions to VoiceRecorder.
HomeRenders ==
    /\ homeError' = IF arrived' # arrived THEN "null"
                    ELSE IF onErrorLog' # onErrorLog
                         THEN onErrorLog'[Len(onErrorLog')].message
                         ELSE homeError
    /\ staleEffect' = (staleEffect \/ arrived' # arrived \/ homeError' # homeError)

\* onTranslation(result): handleTranslation of Home
OnTranslation ==
    /\ results' = Append(results, [id |-> arrived + 1, valid |-> TRUE])
    /\ arrived' = arrived + 1

\* Click on a mode button: setMode(m).  The buttons are never disabled.
SetMode ==
    /\ \E m \in Modes : m # mode /\ mode' = m
    /\ UNCHANGED <<isProcessing, hasMediaDevices, webmSupported, startCalls, starting,
                   sessions, streamRef, audioContextRef, mediaRecorderRef,
                   audioChunksRef, uploads, onErrorLog, stopAcks, sessionOnWire>>
    /\ UNCHANGED <<isRecording, connected, emitted, results, arrived>>
    /\ HomeRenders
    /\ UNCHANGED nonRecVars

\* Click on the start button (rendered when !isRecording, disabled when
\* !isConnected || isProcessing): startRecording up to await getUserMedia.
StartRecording ==
    /\ ~isRecording
    /\ connected
    /\ ~isProcessing
    /\ startCalls < MaxStarts
    /\ startCalls' = startCalls + 1
    /\ audioChunksRef' = <<>>
    /\ IF hasMediaDevices
       THEN /\ starting' = Append(starting, mode)
            /\ UNCHANGED onErrorLog
       ELSE /\ onErrorLog' = Append(onErrorLog, OnErr(NotAvailable, "unavailable"))
            /\ UNCHANGED starting
    /\ UNCHANGED <<isProcessing, mode, hasMediaDevices, webmSupported, sessions,
                   streamRef, audioContextRef, mediaRecorderRef, uploads, stopAcks, sessionOnWire>>
    /\ UNCHANGED <<isRecording, connected, emitted, results, arrived>>
    /\ HomeRenders
    /\ UNCHANGED nonRecVars

\* getUserMedia rejects: the catch block of startRecording.
GetUserMediaRejected ==
    /\ \E i \in DOMAIN starting, error \in MicErrors :
          /\ starting' = RemoveAt(starting, i)
          /\ onErrorLog' = Append(onErrorLog, OnErr(MicMessage(error), error.name))
    /\ UNCHANGED <<isProcessing, mode, hasMediaDevices, webmSupported, startCalls,
                   sessions, streamRef, audioContextRef, mediaRecorderRef,
                   audioChunksRef, uploads, stopAcks, sessionOnWire>>
    /\ UNCHANGED <<isRecording, connected, emitted, results, arrived>>
    /\ HomeRenders
    /\ UNCHANGED nonRecVars

\* getUserMedia resolves: the rest of startRecording.  new MediaRecorder
\* throws NotSupportedError when the browser cannot record audio/webm; the
\* catch block then reports it and releases nothing.
GetUserMediaResolved ==
    /\ \E i \in DOMAIN starting :
          LET n == Len(sessions) + 1
              realtime == starting[i] = "realtime" /\ connected
          IN /\ starting' = RemoveAt(starting, i)
             /\ streamRef' = n
             /\ audioContextRef' = n
             /\ IF ~webmSupported
                THEN /\ sessions' = Append(sessions, Session(starting[i], "none", FALSE, "none"))
                     /\ onErrorLog' = Append(onErrorLog,
                            OnErr(MicMessage([dom |-> TRUE, name |-> "NotSupportedError"]),
                                  "NotSupportedError"))
                     /\ UNCHANGED <<mediaRecorderRef, isRecording, isProcessing, emitted,
                                    stopAcks, sessionOnWire>>
                ELSE /\ sessions' = Append(sessions,
                            Session(starting[i], IF realtime THEN "realtime" ELSE "batch",
                                    realtime, "recording"))
                     /\ mediaRecorderRef' = n
                     /\ isRecording' = TRUE
                     /\ isProcessing' = (realtime \/ isProcessing)
                     /\ emitted' = IF realtime
                                   THEN Append(emitted, Msg("start_translation", <<>>, 0))
                                   ELSE emitted
                     /\ sessionOnWire' = (realtime \/ sessionOnWire)
                     /\ UNCHANGED <<onErrorLog, stopAcks>>
    /\ UNCHANGED <<mode, hasMediaDevices, webmSupported, startCalls, audioChunksRef,
                   uploads>>
    /\ UNCHANGED <<connected, results, arrived>>
    /\ HomeRenders
    /\ UNCHANGED nonRecVars

\* A stopRecording that also marks the connection as lost.
ClickStopClearsConnected ==
    /\ isRecording
    /\ LET emitStop == mode = "realtime" /\ connected
           s1 == IF mediaRecorderRef # NULL /\ sessions[mediaRecorderRef].rec = "recording"
                 THEN [sessions EXCEPT ![mediaRecorderRef].rec = "dataPending"]
                 ELSE sessions
           s2 == IF streamRef # NULL
                 THEN [s1 EXCEPT ![streamRef].processor = FALSE,
                                 ![streamRef].tracks = "stopped"]
                 ELSE s1
           s3 == IF audioContextRef # NULL
                 THEN [s2 EXCEPT ![audioContextRef].context = "closed"]
                 ELSE s2
       IN /\ sessions' = s3
          /\ emitted' = IF emitStop THEN Append(emitted, Msg("stop_translation", <<>>, 0))
                        ELSE emitted
          /\ stopAcks' = IF emitStop THEN stopAcks + 1 ELSE stopAcks
          /\ sessionOnWire' = (sessionOnWire /\ ~emitStop)
    /\ isRecording' = FALSE
    /\ UNCHANGED <<isProcessing, mode, hasMediaDevices, webmSupported, startCalls,
                   starting, streamRef, audioContextRef, mediaRecorderRef,
                   audioChunksRef, uploads, onErrorLog>>
    /\ connected' = FALSE
    /\ UNCHANGED <<results, arrived>>
    /\ HomeRenders
    /\ UNCHANGED nonRecVars

\* Click on the stop button (rendered when isRecording): stopRecording.
ClickStop ==
    /\ isRecording
    /\ LET emitStop == mode = "realtime" /\ connected
           s1 == IF mediaRecorderRef # NULL /\ sessions[mediaRecorderRef].rec = "recording"
                 THEN [sessions EXCEPT ![mediaRecorderRef].rec = "dataPending"]
                 ELSE sessions
           s2 == IF streamRef # NULL
                 THEN [s1 EXCEPT ![streamRef].processor = FALSE,
                                 ![streamRef].tracks = "stopped"]
                 ELSE s1
           s3 == IF audioContextRef # NULL
                 THEN [s2 EXCEPT ![audioContextRef].context = "closed"]
                 ELSE s2
       IN /\ sessions' = s3
          /\ emitted' = IF emitStop THEN Append(emitted, Msg("stop_translation", <<>>, 0))
                        ELSE emitted
          /\ stopAcks' = IF emitStop THEN stopAcks + 1 ELSE stopAcks
          /\ sessionOnWire' = (sessionOnWire /\ ~emitStop)
    /\ isRecording' = FALSE
    /\ UNCHANGED <<isProcessing, mode, hasMediaDevices, webmSupported, startCalls,
                   starting, streamRef, audioContextRef, mediaRecorderRef,
                   audioChunksRef, uploads, onErrorLog>>
    /\ UNCHANGED <<connected, results, arrived>>
    /\ HomeRenders
    /\ UNCHANGED nonRecVars

\* The dataavailable event of a stopped MediaRecorder.  The batch recorder's
\* ondataavailable keeps a blob that is not empty; the realtime recorder has
\* no handler.
RecorderDataAvailable ==
    /\ \E k \in DOMAIN sessions, nonEmpty \in BOOLEAN :
          /\ sessions[k].rec = "dataPending"
          /\ sessions' = [sessions EXCEPT ![k].rec = "stopPending"]
          /\ audioChunksRef' = IF sessions[k].kind = "batch" /\ nonEmpty
                               THEN Append(audioChunksRef, k)
                               ELSE audioChunksRef
    /\ UNCHANGED <<isProcessing, mode, hasMediaDevices, webmSupported, startCalls,
                   starting, streamRef, audioContextRef, mediaRecorderRef, uploads,
                   onErrorLog, stopAcks, sessionOnWire>>
    /\ UNCHANGED <<isRecording, connected, emitted, results, arrived>>
    /\ HomeRenders
    /\ UNCHANGED nonRecVars

\* A sendAudioToBackend call suspended at await fetch.
Upload(owner, blob) ==
    [owner |-> owner, blob |-> blob, stage |-> "fetch", ok |-> FALSE, body |-> "none",
     translations |-> 0, errors |-> 0, message |-> "none"]

\* An onstop handler that never uploads.
RecorderStopNoUpload ==
    /\ \E k \in DOMAIN sessions :
          /\ sessions[k].rec = "stopPending"
          /\ sessions' = [sessions EXCEPT ![k].rec = "stopped"]
          /\ audioChunksRef' = IF sessions[k].kind = "batch" THEN <<>> ELSE audioChunksRef
    /\ UNCHANGED <<isProcessing, uploads>>
    /\ UNCHANGED <<mode, hasMediaDevices, webmSupported, startCalls, starting,
                   streamRef, audioContextRef, mediaRecorderRef, onErrorLog, stopAcks, sessionOnWire>>
    /\ UNCHANGED <<isRecording, connected, emitted, results, arrived>>
    /\ HomeRenders
    /\ UNCHANGED nonRecVars

\* The stop event of a MediaRecorder: mediaRecorder.onstop of the batch branch
\* up to await fetch inside sendAudioToBackend, or to its end for an empty blob.
RecorderStop ==
    /\ \E k \in DOMAIN sessions :
          /\ sessions[k].rec = "stopPending"
          /\ sessions' = [sessions EXCEPT ![k].rec = "stopped"]
          /\ IF sessions[k].kind = "batch" /\ audioChunksRef # <<>>
             THEN /\ isProcessing' = TRUE
                  /\ uploads' = Append(uploads, Upload(k, audioChunksRef))
                  /\ UNCHANGED audioChunksRef
             ELSE /\ audioChunksRef' = IF sessions[k].kind = "batch" THEN <<>>
                                       ELSE audioChunksRef
                  /\ UNCHANGED <<isProcessing, uploads>>
    /\ UNCHANGED <<mode, hasMediaDevices, webmSupported, startCalls, starting,
                   streamRef, audioContextRef, mediaRecorderRef, onErrorLog, stopAcks, sessionOnWire>>
    /\ UNCHANGED <<isRecording, connected, emitted, results, arrived>>
    /\ HomeRenders
    /\ UNCHANGED nonRecVars

\* The bodies of a response of POST /api/translate.
Bodies == {"success", "successNoMetrics", "failError", "failNoError", "notJson"}

\* errorData.error || 'Translation failed'
ErrorOr(body) == IF body = "failError" THEN "body.error" ELSE "Translation failed"

\* FetchRejected without the audioChunksRef.current = [] at the end of onstop.
FetchRejectedKeepsChunks ==
    /\ \E u \in DOMAIN uploads :
          /\ uploads[u].stage = "fetch"
          /\ uploads' = [uploads EXCEPT ![u].stage = "done", ![u].errors = @ + 1,
                                        ![u].message = "fetch error.message"]
          /\ onErrorLog' = Append(onErrorLog, OnErr("fetch error.message", "fetch"))
    /\ isProcessing' = FALSE
    /\ UNCHANGED audioChunksRef
    /\ UNCHANGED <<mode, hasMediaDevices, webmSupported, startCalls, starting, sessions,
                   streamRef, audioContextRef, mediaRecorderRef, stopAcks, sessionOnWire>>
    /\ UNCHANGED <<isRecording, connected, emitted, results, arrived>>
    /\ HomeRenders
    /\ UNCHANGED nonRecVars

\* fetch rejects (network failure): catch, finally, and the end of onstop.
FetchRejected ==
    /\ \E u \in DOMAIN uploads :
          /\ uploads[u].stage = "fetch"
          /\ uploads' = [uploads EXCEPT ![u].stage = "done", ![u].errors = @ + 1,
                                        ![u].message = "fetch error.message"]
          /\ onErrorLog' = Append(onErrorLog, OnErr("fetch error.message", "fetch"))
    /\ isProcessing' = FALSE
    /\ audioChunksRef' = <<>>
    /\ UNCHANGED <<mode, hasMediaDevices, webmSupported, startCalls, starting, sessions,
                   streamRef, audioContextRef, mediaRecorderRef, stopAcks, sessionOnWire>>
    /\ UNCHANGED <<isRecording, connected, emitted, results, arrived>>
    /\ HomeRenders
    /\ UNCHANGED nonRecVars

\* fetch resolves with a response; the call suspends at await response.json().
FetchResolved ==
    /\ \E u \in DOMAIN uploads, ok \in BOOLEAN, body \in Bodies :
          /\ uploads[u].stage = "fetch"
          /\ uploads' = [uploads EXCEPT ![u].stage = "json", ![u].ok = ok,
                                        ![u].body = body]
    /\ UNCHANGED <<isProcessing, mode, hasMediaDevices, webmSupported, startCalls,
                   starting, sessions, streamRef, audioContextRef, mediaRecorderRef,
                   audioChunksRef, onErrorLog, stopAcks, sessionOnWire>>
    /\ UNCHANGED <<isRecording, connected, emitted, results, arrived>>
    /\ HomeRenders
    /\ UNCHANGED nonRecVars

\* What sendAudioToBackend does with the settled response.json(): the message
\* it throws, or "none" when it calls onTranslation.
Thrown(ok, body) ==
    CASE body = "notJson" -> "SyntaxError.message"
      [] ~ok -> ErrorOr(body)
      [] body = "success" -> "none"
      [] body = "successNoMetrics" -> "TypeError.message"
      [] OTHER -> ErrorOr(body)

\* response.json() settles: the rest of sendAudioToBackend and of onstop.
JsonSettled ==
    /\ \E u \in DOMAIN uploads :
          /\ uploads[u].stage = "json"
          /\ LET message == Thrown(uploads[u].ok, uploads[u].body) IN
             IF message = "none"
             THEN /\ OnTranslation
                  /\ uploads' = [uploads EXCEPT ![u].stage = "done",
                                                ![u].translations = @ + 1]
                  /\ UNCHANGED onErrorLog
             ELSE /\ onErrorLog' = Append(onErrorLog, OnErr(message, "upload"))
                  /\ uploads' = [uploads EXCEPT ![u].stage = "done", ![u].errors = @ + 1,
                                                ![u].message = message]
                  /\ UNCHANGED <<results, arrived>>
    /\ isProcessing' = FALSE
    /\ audioChunksRef' = <<>>
    /\ UNCHANGED <<mode, hasMediaDevices, webmSupported, startCalls, starting, sessions,
                   streamRef, audioContextRef, mediaRecorderRef, stopAcks, sessionOnWire>>
    /\ UNCHANGED <<isRecording, connected, emitted>>
    /\ HomeRenders
    /\ UNCHANGED nonRecVars

\* A streaming session was opened on the socket at some time.
SessionOpened == \E k \in DOMAIN emitted : emitted[k].type = "start_translation"

\* A translation_result handler that drops a result when not recording.
TranslationResultWhileRecording ==
    /\ isRecording
    /\ connected
    /\ SessionOpened
    /\ arrived < MaxSocketResults
    /\ OnTranslation
    /\ \E is_final \in BOOLEAN : isProcessing' = (isProcessing /\ ~is_final)
    /\ UNCHANGED <<mode, hasMediaDevices, webmSupported, startCalls, starting, sessions,
                   streamRef, audioContextRef, mediaRecorderRef, audioChunksRef,
                   uploads, onErrorLog, stopAcks, sessionOnWire>>
    /\ UNCHANGED <<isRecording, connected, emitted>>
    /\ HomeRenders
    /\ UNCHANGED nonRecVars

\* socket.on('translation_result')
TranslationResult ==
    /\ connected
    /\ SessionOpened
    /\ arrived < MaxSocketResults
    /\ OnTranslation
    /\ \E is_final \in BOOLEAN : isProcessing' = (isProcessing /\ ~is_final)
    /\ UNCHANGED <<mode, hasMediaDevices, webmSupported, startCalls, starting, sessions,
                   streamRef, audioContextRef, mediaRecorderRef, audioChunksRef,
                   uploads, onErrorLog, stopAcks, sessionOnWire>>
    /\ UNCHANGED <<isRecording, connected, emitted>>
    /\ HomeRenders
    /\ UNCHANGED nonRecVars

BackendErrors == Cardinality({k \in DOMAIN onErrorLog : onErrorLog[k].cause = "socket"})

\* A socket error handler that reports the error and leaves isProcessing.
SocketErrorKeepsProcessing ==
    /\ connected
    /\ SessionOpened
    /\ BackendErrors < MaxBackendErrors
    /\ onErrorLog' = Append(onErrorLog, OnErr("error.error", "socket"))
    /\ UNCHANGED <<mode, hasMediaDevices, webmSupported, startCalls, starting, sessions,
                   streamRef, audioContextRef, mediaRecorderRef, audioChunksRef,
                   uploads, stopAcks, sessionOnWire, isProcessing>>
    /\ UNCHANGED <<isRecording, connected, emitted, results, arrived>>
    /\ HomeRenders
    /\ UNCHANGED nonRecVars

\* socket.on('error')
SocketError ==
    /\ connected
    /\ SessionOpened
    /\ BackendErrors < MaxBackendErrors
    /\ onErrorLog' = Append(onErrorLog, OnErr("error.error", "socket"))
    /\ isProcessing' = FALSE
    /\ UNCHANGED <<mode, hasMediaDevices, webmSupported, startCalls, starting, sessions,
                   streamRef, audioContextRef, mediaRecorderRef, audioChunksRef,
                   uploads, stopAcks, sessionOnWire>>
    /\ UNCHANGED <<isRecording, connected, emitted, results, arrived>>
    /\ HomeRenders
    /\ UNCHANGED nonRecVars

\* socket.on('translation_stopped'): the backend's reply to stop_translation
TranslationStopped ==
    /\ connected
    /\ stopAcks > 0
    /\ stopAcks' = stopAcks - 1
    /\ UNCHANGED sessionOnWire
    /\ isProcessing' = FALSE
    /\ UNCHANGED <<mode, hasMediaDevices, webmSupported, startCalls, starting, sessions,
                   streamRef, audioContextRef, mediaRecorderRef, audioChunksRef,
                   uploads, onErrorLog>>
    /\ UNCHANGED <<isRecording, connected, emitted, results, arrived>>
    /\ HomeRenders
    /\ UNCHANGED nonRecVars

InitRec ==
    /\ isProcessing = FALSE
    /\ mode = "realtime"
    /\ startCalls = 0
    /\ starting = <<>>
    /\ sessions = <<>>
    /\ streamRef = NULL
    /\ audioContextRef = NULL
    /\ mediaRecorderRef = NULL
    /\ audioChunksRef = <<>>
    /\ uploads = <<>>
    /\ onErrorLog = <<>>
    /\ stopAcks = 0
    /\ sessionOnWire = FALSE

\* The page and the recorder are mounted: the socket effect ran once.
InitSock ==
    /\ homeError = "null"
    /\ staleEffect = FALSE
    /\ sockPhase = "opening"
    /\ attempts = 0
    /\ failedRun = 0
    /\ sockets = 1

(***************************************************************************)
(* VoiceRecorder (first variant): the record button, toggleRecording,      *)
(* startRecording and stopRecording.  isConnected follows the connect and  *)
(* disconnect events of the socket, as connected does.                     *)
(***************************************************************************)
\* The record button: disabled={!isConnected}
RecordButtonEnabled == connected

\* Click on the record button while not recording: toggleRecording calls
\* startRecording, which runs up to await getUserMedia; without
\* navigator.mediaDevices the call throws into the catch block.
ToggleStart ==
    /\ RecordButtonEnabled
    /\ ~isRecording
    /\ startCalls < MaxStarts
    /\ startCalls' = startCalls + 1
    /\ IF hasMediaDevices
       THEN /\ starting' = Append(starting, "first")
            /\ UNCHANGED onErrorLog
       ELSE /\ onErrorLog' = Append(onErrorLog,
                   OnErr(MicMessageGeneric([dom |-> FALSE, name |-> "TypeError"]),
                         "TypeError"))
            /\ UNCHANGED starting
    /\ UNCHANGED <<isProcessing, mode, hasMediaDevices, webmSupported, sessions,
                   streamRef, audioContextRef, mediaRecorderRef, audioChunksRef,
                   uploads, stopAcks, sessionOnWire>>
    /\ UNCHANGED <<isRecording, connected, emitted, results, arrived>>
    /\ HomeRenders
    /\ UNCHANGED nonRecVars

\* getUserMedia rejects: the catch block of startRecording.
FirstGetUserMediaRejected ==
    /\ \E i \in DOMAIN starting, error \in MicErrors :
          /\ starting[i] = "first"
          /\ starting' = RemoveAt(starting, i)
          /\ onErrorLog' = Append(onErrorLog, OnErr(MicMessageGeneric(error), error.name))
    /\ UNCHANGED <<isProcessing, mode, hasMediaDevices, webmSupported, startCalls,
                   sessions, streamRef, audioContextRef, mediaRecorderRef,
                   audioChunksRef, uploads, stopAcks, sessionOnWire>>
    /\ UNCHANGED <<isRecording, connected, emitted, results, arrived>>
    /\ HomeRenders
    /\ UNCHANGED nonRecVars

\* getUserMedia resolves: the rest of startRecording.  new MediaRecorder
\* throws when the browser cannot record audio/webm;codecs=opus.
FirstGetUserMediaResolved ==
    /\ \E i \in DOMAIN starting :
          LET n == Len(sessions) + 1
          IN /\ starting[i] = "first"
             /\ starting' = RemoveAt(starting, i)
             /\ streamRef' = n
             /\ audioContextRef' = n
             /\ IF ~webmSupported
                THEN /\ sessions' = Append(sessions, Session("first", "none", FALSE, "none"))
                     /\ onErrorLog' = Append(onErrorLog,
                            OnErr(MicMessageGeneric([dom |-> TRUE,
                                                     name |-> "NotSupportedError"]),
                                  "NotSupportedError"))
                     /\ UNCHANGED <<mediaRecorderRef, isRecording, emitted>>
                ELSE /\ sessions' = Append(sessions,
                            Session("first", "first", FALSE, "recording"))
                     /\ mediaRecorderRef' = n
                     /\ isRecording' = TRUE
                     /\ emitted' = Append(emitted, Msg("start_recording", <<>>, 0))
                     /\ UNCHANGED onErrorLog
    /\ UNCHANGED <<isProcessing, mode, hasMediaDevices, webmSupported, startCalls,
                   audioChunksRef, uploads, stopAcks, sessionOnWire>>
    /\ UNCHANGED <<connected, results, arrived>>
    /\ HomeRenders
    /\ UNCHANGED nonRecVars

\* Click on the record button while recording: toggleRecording calls
\* stopRecording.
ToggleStop ==
    /\ RecordButtonEnabled
    /\ isRecording
    /\ LET s1 == IF mediaRecorderRef # NULL /\ sessions[mediaRecorderRef].rec = "recording"
                 THEN [sessions EXCEPT ![mediaRecorderRef].rec = "dataPending"]
                 ELSE sessions
           s2 == IF streamRef # NULL
                 THEN [s1 EXCEPT ![streamRef].tracks = "stopped"]
                 ELSE s1
           s3 == IF audioContextRef # NULL
                 THEN [s2 EXCEPT ![audioContextRef].context = "closed"]
                 ELSE s2
       IN sessions' = s3
    /\ isRecording' = FALSE
    /\ emitted' = Append(emitted, Msg("stop_recording", <<>>, 0))
    /\ UNCHANGED <<isProcessing, mode, hasMediaDevices, webmSupported, startCalls,
                   starting, streamRef, audioContextRef, mediaRecorderRef,
                   audioChunksRef, uploads, onErrorLog, stopAcks, sessionOnWire>>
    /\ UNCHANGED <<connected, results, arrived>>
    /\ HomeRenders
    /\ UNCHANGED nonRecVars

(***************************************************************************)
(* Controller: claims                                                      *)
(***************************************************************************)
LiveStreams == {k \in DOMAIN sessions : sessions[k].tracks = "live"}

\* The streaming sessions that were opened with start_translation and whose
\* recording was not stopped.
OpenStreaming == {k \in LiveStreams : sessions[k].kind = "realtime"}

\* C12: the recorder never holds two microphone streams at once and never
\* has two start_translation requests open for one recording; a second
\* startRecording before a stop, also while the first awaits the microphone,
\* is rejected.
C12_NoSecondStart ==
    /\ Cardinality(LiveStreams) <= 1
    /\ Cardinality(OpenStreaming) <= 1
    /\ Len(starting) <= 1
    /\ isRecording => starting = <<>>

\* C13: the recorder enters the recording state only while the connected
\* flag is true at that moment.
C13_RecordsOnlyWhenConnected ==
    [][(~isRecording /\ isRecording') => connected]_vars

\* The message the claim assigns to each class of acquisition failure.
ClassMessage(cause) ==
    CASE cause = "NotAllowedError" ->
             "Microphone permission denied. Please allow microphone access."
      [] cause = "NotFoundError" -> "No microphone found. Please connect a microphone."
      [] cause = "NotReadableError" -> "Microphone is in use by another application."
      [] cause = "OverconstrainedError" -> "Could not satisfy audio constraints."
      [] cause = "SecurityError" -> "Microphone access blocked. Use HTTPS or localhost."
      [] cause = "unavailable" ->
             "Microphone access not available. Please use localhost (not 127.0.0.1) or HTTPS."

\* This step is a startRecording call failing to acquire the microphone:
\* getUserMedia is missing, or its promise rejects.
AcquisitionFails ==
    \/ startCalls' = startCalls + 1 /\ starting' = starting
    \/ Len(starting') < Len(starting) /\ Len(sessions') = Len(sessions)

C14_WitnessUnavailable ==
    /\ ~hasMediaDevices
    /\ startCalls = 1
    /\ Len(onErrorLog) = 1 /\ onErrorLog[1].cause = "unavailable"
    /\ ~isRecording /\ ~isProcessing

\* C15: the mode does not change while isRecording or isProcessing is true,
\* so stopRecording sees the mode with which its session was started.
C15_ModeFixedWhileBusy ==
    [][/\ (isRecording \/ isProcessing) => mode' = mode
       /\ (isRecording /\ ~isRecording' /\ mediaRecorderRef # NULL)
              => mode = sessions[mediaRecorderRef].mode]_vars

\* No startRecording call, recorder event or upload is pending and the
\* controller is idle.
QuiescentIdle ==
    /\ ~isRecording
    /\ ~isProcessing
    /\ starting = <<>>
    /\ \A k \in DOMAIN sessions : sessions[k].rec \in {"none", "stopped"}
    /\ \A u \in DOMAIN uploads : uploads[u].stage = "done"

\* C16: on every exit path of a recording attempt (an error after the stream
\* was acquired, a stop from any state) every acquired stream has its tracks
\* stopped and every created AudioContext is closed: a quiescent idle
\* recorder holds no live stream and no open context.
C16_ResourcesReleased ==
    QuiescentIdle =>
        \A k \in DOMAIN sessions :
            sessions[k].tracks = "stopped" /\ sessions[k].context = "closed"

\* This step is stopRecording ending a recording that streams.
StopsStreaming ==
    /\ isRecording /\ ~isRecording'
    /\ mediaRecorderRef # NULL
    /\ sessions[mediaRecorderRef].kind = "realtime"

\* A translation_result that reaches the socket is handed to onTranslation,
\* whatever the state of the controller.
ResultsDelivered ==
    (connected /\ SessionOpened /\ arrived < MaxSocketResults) => ENABLED TranslationResult

UploadsOf(k) == {u \in DOMAIN uploads : uploads[u].owner = k}

\* The recording of batch session k was stopped.
BatchStopped(k) ==
    /\ k \in DOMAIN sessions
    /\ sessions[k].kind = "batch"
    /\ sessions[k].rec \in {"dataPending", "stopPending", "stopped"}

\* C18 as claimed: every batch recording that is stopped is sent in exactly
\* one upload, the controller is processing while the upload is awaited and
\* idle afterwards.
C18_BatchStopUploads ==
    /\ \A k \in 1..MaxStarts :
          BatchStopped(k) ~> (Cardinality(UploadsOf(k)) = 1 /\ isProcessing)
    /\ \A k \in 1..MaxStarts :
          BatchStopped(k) ~>
              (\E u \in UploadsOf(k) : uploads[u].stage = "done" /\ ~isProcessing)

\* This step is the stop event of the recorder of a batch session.
BatchStopEvent(k) ==
    /\ k \in DOMAIN sessions
    /\ sessions[k].kind = "batch"
    /\ sessions[k].rec = "stopPending" /\ sessions'[k].rec = "stopped"

\* A stopped MediaRecorder still owes an event, or an upload has not ended.
EventsPending ==
    \/ \E k \in DOMAIN sessions : sessions[k].rec \in {"dataPending", "stopPending"}
    \/ \E u \in DOMAIN uploads : uploads[u].stage # "done"

\* C18 amended: a stopped batch recording reaches its stop event; the stop
\* event sends a non-empty capture buffer in exactly one upload and sets
\* isProcessing, and sends nothing and leaves isProcessing alone when the
\* buffer is empty; every upload ends, and its end clears isProcessing.
C18_BatchStopUploadsNonEmpty ==
    /\ [][\A k \in 1..MaxStarts :
             BatchStopEvent(k) =>
                IF audioChunksRef # <<>>
                THEN /\ uploads' = Append(uploads, Upload(k, audioChunksRef))
                     /\ isProcessing'
                ELSE /\ uploads' = uploads
                     /\ isProcessing' = isProcessing]_vars
    /\ [](\A k \in DOMAIN sessions : Cardinality(UploadsOf(k)) <= 1)
    /\ [][\A u \in DOMAIN uploads :
             (uploads[u].stage # "done" /\ uploads'[u].stage = "done") => ~isProcessing']_vars
    /\ <>[]~EventsPending

\* C18 witness: a batch recording was stopped, its one upload ended with a
\* translation and the controller is idle.
C18_Witness ==
    /\ Len(sessions) = 1 /\ sessions[1].kind = "batch" /\ sessions[1].rec = "stopped"
    /\ Len(uploads) = 1 /\ uploads[1].owner = 1 /\ uploads[1].stage = "done"
    /\ uploads[1].translations = 1
    /\ ~isRecording /\ ~isProcessing

\* The messages the claim allows for a failed upload: the error field of the
\* response body, the fallbacks of the code, and the browser's message for
\* a request that got no response.
UploadMessages ==
    {"body.error", "Translation failed", "Failed to translate audio", "fetch error.message"}

\* C19: every sendAudioToBackend call ends with exactly one call of either
\* onTranslation or onError, whatever the response, and the message given to
\* onError is the one extracted from the response or a generic fallback.
C19_OneOutcomePerUpload ==
    \A u \in DOMAIN uploads :
        IF uploads[u].stage = "done"
        THEN /\ uploads[u].translations + uploads[u].errors = 1
             /\ uploads[u].errors = 1 => uploads[u].message \in UploadMessages
        ELSE uploads[u].translations = 0 /\ uploads[u].errors = 0

\* The step in which upload u ends with a call of onError.
UploadFails(u) ==
    /\ uploads[u].stage # "done"
    /\ uploads'[u].stage = "done"
    /\ uploads'[u].errors = 1

\* No recording was started after the one of upload u, and no startRecording
\* is waiting for getUserMedia.
LastRecording(u) == uploads[u].owner = Len(sessions) /\ starting = <<>>

\* Whenever a batch upload fails the recorder is idle, whatever else was
\* started meanwhile.
C20_FailedUploadIdle ==
    [][\A u \in DOMAIN uploads :
          UploadFails(u) =>
             /\ ~isRecording'
             /\ ~isProcessing'
             /\ audioChunksRef' = <<>>]_vars

C20_WitnessIdle ==
    /\ Len(sessions) = 1 /\ starting = <<>>
    /\ Len(uploads) = 1 /\ uploads[1].stage = "done" /\ uploads[1].errors = 1
    /\ ~isRecording /\ ~isProcessing /\ audioChunksRef = <<>>
    /\ ENABLED StartRecording

\* The step is the socket's error handler: it hands one message to onError.
SocketErrorStep ==
    /\ Len(onErrorLog') = Len(onErrorLog) + 1
    /\ onErrorLog'[Len(onErrorLog')].cause = "socket"

C26_ErrorEdgeToIdle ==
    [][(SocketErrorStep /\ isRecording) => (~isRecording' /\ ~isProcessing')]_vars

\* The part of C26 the handler does: isProcessing is false after it.
C26_ErrorEndsProcessing ==
    [][(SocketErrorStep /\ isRecording) => ~isProcessing']_vars

\* A streaming recording is active: isRecording with the live stream of a
\* session started in the realtime branch.
StreamingActive ==
    /\ isRecording
    /\ streamRef # NULL
    /\ sessions[streamRef].kind = "realtime"
    /\ sessions[streamRef].tracks = "live"

\* C25: when the socket disconnects while a streaming recording is active,
\* the recorder leaves the recording state and releases the microphone
\* without a user stop.
C25_DisconnectEndsSession ==
    [][(connected /\ ~connected' /\ StreamingActive) =>
          (~isRecording' /\ sessions'[streamRef].tracks = "stopped")]_vars

\* What the code does instead: the recording state ends in stopRecording
\* only, and a lost connection leaves the recorder's state as it was.
C25_OnlyStopEndsRecording ==
    /\ [][(isRecording /\ ~isRecording') => ClickStop]_vars
    /\ [][(connected /\ ~connected') =>
              UNCHANGED <<isRecording, isProcessing, sessions, streamRef>>]_vars

\* C33: after stopRecording of a streaming session isProcessing is eventually
\* cleared, so that from some time on the recorder that is not recording is
\* not processing either and the start button is enabled again, the
\* backend answering every stop_translation it receives.
C33_ProcessingCleared == <>[](~isRecording => ~isProcessing)

\* A streaming recording was stopped while the socket was disconnected: no
\* stop_translation was emitted, no reply is owed, no upload or recorder
\* event is pending and isProcessing is still true.
C33_StuckProcessing ==
    /\ ~isRecording /\ isProcessing
    /\ Len(sessions) = 1 /\ sessions[1].kind = "realtime" /\ sessions[1].rec = "stopped"
    /\ starting = <<>> /\ uploads = <<>>
    /\ stopAcks = 0
    /\ Len(emitted) = 1

\* With the reply to stop_translation received, isProcessing is false.
C33_ClearedByReply ==
    [][(stopAcks' = stopAcks - 1 /\ connected') => ~isProcessing']_vars

\* C34: whenever a recording is active the control that invokes
\* stopRecording is enabled.
C34_StopAvailable == isRecording => RecordButtonEnabled

\* The second variant's stop button has no disabled condition: stopRecording
\* can be invoked in every state in which isRecording is true.
C34_StopButtonAlwaysEnabled == isRecording => ENABLED ClickStop

\* The data block of recording k is in the capture buffer.
InBuffer(k, buf) == \E i \in DOMAIN buf : buf[i] = k

\* C35: the blob uploaded for a stopped batch recording consists of exactly
\* the data blocks captured during that recording; a block that was kept
\* stays in the buffer until the recording's stop event, whatever
\* startRecording does in between.
C35_UtteranceIntegrity ==
    /\ [](\A u \in DOMAIN uploads : uploads[u].blob = <<uploads[u].owner>>)
    /\ [][\A k \in DOMAIN sessions :
              (sessions[k].kind = "batch" /\ sessions[k].rec = "stopPending"
                 /\ InBuffer(k, audioChunksRef)) => InBuffer(k, audioChunksRef')]_vars

\* The upload of the first recording holds the block of the second as well.
C35_MixedUpload ==
    \E u \in DOMAIN uploads : uploads[u].owner = 1 /\ uploads[u].blob = <<1, 2>>

\* The first recording reached its stop event with the buffer emptied by a
\* new startRecording: nothing was uploaded for it.
C35_LostRecording ==
    /\ Len(sessions) >= 1
    /\ sessions[1].kind = "batch" /\ sessions[1].rec = "stopped"
    /\ startCalls = 2
    /\ uploads = <<>> /\ audioChunksRef = <<>>
    /\ \A k \in DOMAIN sessions : sessions[k].rec # "stopPending"

\* Without a startRecording between stopRecording and the stop event the
\* upload is the recording's own block.
C35_IntactWithoutRestart ==
    (startCalls = 1 /\ Len(sessions) = 1) =>
        \A u \in DOMAIN uploads : uploads[u].blob = <<uploads[u].owner>>

\* The sendAudioToBackend calls that have not ended.
InFlight == {u \in DOMAIN uploads : uploads[u].stage # "done"}

\* C36: isProcessing is true in every state in which a batch upload is in
\* flight, and at most one batch upload is in flight at any time.
C36_ProcessingWhileUploading ==
    /\ InFlight # {} => isProcessing
    /\ Cardinality(InFlight) <= 1

\* Two uploads are in flight at once.
C36_TwoUploads == Cardinality(InFlight) = 2

\* One upload is in flight, the only recording is over, and isProcessing was
\* cleared by an event of the socket.
C36_ClearedBySocket ==
    /\ Cardinality(InFlight) = 1 /\ ~isProcessing
    /\ Len(sessions) = 1 /\ sessions[1].kind = "batch" /\ startCalls = 1

\* sendAudioToBackend itself keeps the flag: it is true after the step that
\* starts an upload and false after the step that ends one.
C36_SetAndClearedByUpload ==
    [][/\ Len(uploads') > Len(uploads) => isProcessing'
       /\ \A u \in DOMAIN uploads :
             (uploads[u].stage # "done" /\ uploads'[u].stage = "done") => ~isProcessing']_vars

\* C37: the transport of a session is that of the mode it was started in: a
\* session started in realtime mode issues no batch upload, and a session
\* started in batch mode emits neither start_translation nor
\* stop_translation (the recorder of this specification emits no
\* audio_chunk outside a session opened by start_translation).
C37_TransportMatchesMode ==
    /\ [](\A u \in DOMAIN uploads : sessions[uploads[u].owner].mode # "realtime")
    /\ [][Emits("start_translation") => sessions'[Len(sessions')].mode = "realtime"]_vars
    /\ [][(Emits("stop_translation") /\ streamRef # NULL) =>
              sessions[streamRef].mode = "realtime"]_vars

\* A session started in realtime mode, the mode never changed, found the
\* socket disconnected at the mode branch and was uploaded as a batch.
C37_RealtimeUploaded ==
    /\ mode = "realtime"
    /\ Len(sessions) = 1 /\ sessions[1].mode = "realtime" /\ sessions[1].kind = "batch"
    /\ Len(uploads) = 1 /\ uploads[1].owner = 1
    /\ emitted = <<>>

\* The branch taken at the start is that of the mode as long as the socket
\* is connected at the branch: a realtime session of kind batch was started
\* while disconnected, and a batch-mode session is never of kind realtime.
C37_BranchFollowsMode ==
    [][Len(sessions') > Len(sessions) =>
          LET k == sessions'[Len(sessions')] IN
          /\ k.mode = "batch" => k.kind # "realtime"
          /\ (k.mode = "realtime" /\ connected) => k.kind # "batch"]_vars

(***************************************************************************)
(* VoiceRecorder, health-probe variant: checkHealth and its interval.      *)
(* A probe (one checkHealth call) is suspended at await fetch (stage       *)
(* "fetch") or at await response.json() (stage "json"), or has ended       *)
(* (stage "done"); status and body are those of the response it is        *)
(* reading, outcome is how it ended.  A state update of a component that   *)
(* is no longer mounted has no effect.                                     *)
(***************************************************************************)
\* Bound: checkHealth calls.
MaxProbes == 2

\* The statuses and bodies of a response of GET /health.
Statuses == {200, 201, 404, 500}
HealthBodies == {"json", "notJson"}

\* response.ok of a probe that ignores the status
ResponseOkAny(status) == TRUE

\* response.ok
ResponseOk(status) == status \in 200..299

\* A checkHealth call suspended at await fetch.
Probe == [stage |-> "fetch", status |-> 0, body |-> "none", outcome |-> "none"]

\* setIsConnected(v)
SetIsConnected(v) == isConnected' = IF healthMounted THEN v ELSE isConnected

\* The interval fires: checkHealth up to await fetch.
HealthTick ==
    /\ healthTimer
    /\ Len(probes) < MaxProbes
    /\ probes' = Append(probes, Probe)
    /\ UNCHANGED <<isConnected, healthMounted, healthTimer>>
    /\ UNCHANGED <<metricsVars, staleEffect, nonTimerVars>>

\* fetch rejects: a network failure, or the abort of the 3000 ms timeout.
ProbeFetchRejected ==
    /\ \E p \in DOMAIN probes, cause \in {"network", "timeout"} :
          /\ probes[p].stage = "fetch"
          /\ probes' = [probes EXCEPT ![p].stage = "done", ![p].outcome = cause]
    /\ SetIsConnected(FALSE)
    /\ UNCHANGED <<healthMounted, healthTimer>>
    /\ UNCHANGED <<metricsVars, staleEffect, nonTimerVars>>

\* fetch resolves with a response: clearTimeout, then the test of response.ok.
ProbeFetchResolved ==
    /\ \E p \in DOMAIN probes, status \in Statuses, body \in HealthBodies :
          /\ probes[p].stage = "fetch"
          /\ IF ResponseOk(status)
             THEN /\ probes' = [probes EXCEPT ![p].stage = "json", ![p].status = status,
                                              ![p].body = body]
                  /\ UNCHANGED isConnected
             ELSE /\ probes' = [probes EXCEPT ![p].stage = "done", ![p].outcome = "status"]
                  /\ SetIsConnected(FALSE)
    /\ UNCHANGED <<healthMounted, healthTimer>>
    /\ UNCHANGED <<metricsVars, staleEffect, nonTimerVars>>

\* response.json() settles: setIsConnected(true), or the catch block.
ProbeJsonSettled ==
    /\ \E p \in DOMAIN probes :
          /\ probes[p].stage = "json"
          /\ probes' = [probes EXCEPT ![p].stage = "done", ![p].status = 0,
                           ![p].body = "none",
                           ![p].outcome = IF probes[p].body = "json" THEN "ok" ELSE "syntax"]
          /\ SetIsConnected(probes[p].body = "json")
    /\ UNCHANGED <<healthMounted, healthTimer>>
    /\ UNCHANGED <<metricsVars, staleEffect, nonTimerVars>>

\* An unmount that leaves the interval set.
HealthUnmountKeepsTimer ==
    /\ healthMounted
    /\ healthMounted' = FALSE
    /\ UNCHANGED <<isConnected, healthTimer, probes>>
    /\ UNCHANGED <<metricsVars, staleEffect, nonTimerVars>>

\* The component unmounts: the cleanup of the effect, clearInterval(interval).
HealthUnmount ==
    /\ healthMounted
    /\ healthMounted' = FALSE
    /\ healthTimer' = FALSE
    /\ UNCHANGED <<isConnected, probes>>
    /\ UNCHANGED <<metricsVars, staleEffect, nonTimerVars>>

(***************************************************************************)
(* EvaluationMetrics: fetchSummary, the auto-refresh effect, resetMetrics. *)
(***************************************************************************)
\* Bound: fetchSummary calls.
MaxSummaryCalls == 2

SummaryBodies == {"success", "noSuccess", "notJson"}

\* A fetchSummary call suspended at await fetch; by is history: what called it.
SummaryCall(by) == [stage |-> "fetch", body |-> "none", by |-> by]

\* A state update of EvaluationMetrics: ignored when it is not mounted.
Kept(old, new) == IF metricsMounted THEN new ELSE old

\* The auto-refresh effect for a new value of autoRefresh.
RefreshEffect(on) == refreshTimer' = on

\* fetchSummary up to await fetch.
FetchSummary(by) ==
    /\ Len(summaryCalls) < MaxSummaryCalls
    /\ summaryCalls' = Append(summaryCalls, SummaryCall(by))
    /\ loading' = Kept(loading, TRUE)
    /\ metricsError' = Kept(metricsError, "")
    /\ UNCHANGED <<metricsMounted, autoRefresh, refreshTimer, summary, resets>>
    /\ UNCHANGED <<healthVars, staleEffect, nonTimerVars>>

\* The interval of the auto-refresh effect fires.
RefreshTick ==
    /\ refreshTimer
    /\ FetchSummary("timer")

\* Click on the refresh button (disabled while loading).
ClickRefresh ==
    /\ metricsMounted
    /\ ~loading
    /\ FetchSummary("click")

\* Click on the auto-refresh button: setAutoRefresh(!autoRefresh); the
\* render runs the cleanup of the effect and the effect.
ToggleAutoRefresh ==
    /\ metricsMounted
    /\ autoRefresh' = ~autoRefresh
    /\ RefreshEffect(autoRefresh')
    /\ UNCHANGED <<metricsMounted, loading, metricsError, summary, summaryCalls, resets>>
    /\ UNCHANGED <<healthVars, staleEffect, nonTimerVars>>

\* fetch of fetchSummary rejects: catch and finally.
SummaryFetchRejected ==
    /\ \E c \in DOMAIN summaryCalls :
          /\ summaryCalls[c].stage = "fetch"
          /\ summaryCalls' = [summaryCalls EXCEPT ![c].stage = "done"]
    /\ metricsError' = Kept(metricsError, "Error connecting to server")
    /\ loading' = Kept(loading, FALSE)
    /\ UNCHANGED <<metricsMounted, autoRefresh, refreshTimer, summary, resets>>
    /\ UNCHANGED <<healthVars, staleEffect, nonTimerVars>>

\* fetch of fetchSummary resolves; the call suspends at await response.json().
SummaryFetchResolved ==
    /\ \E c \in DOMAIN summaryCalls, body \in SummaryBodies :
          /\ summaryCalls[c].stage = "fetch"
          /\ summaryCalls' = [summaryCalls EXCEPT ![c].stage = "json", ![c].body = body]
    /\ UNCHANGED <<metricsMounted, autoRefresh, refreshTimer, loading, metricsError,
                   summary, resets>>
    /\ UNCHANGED <<healthVars, staleEffect, nonTimerVars>>

\* response.json() of fetchSummary settles: the rest of fetchSummary.
SummaryJsonSettled ==
    /\ \E c \in DOMAIN summaryCalls :
          /\ summaryCalls[c].stage = "json"
          /\ summaryCalls' = [summaryCalls EXCEPT ![c].stage = "done", ![c].body = "none"]
          /\ summary' = Kept(summary, IF summaryCalls[c].body = "success"
                                      THEN "summary" ELSE summary)
          /\ metricsError' =
                Kept(metricsError,
                     CASE summaryCalls[c].body = "success" -> metricsError
                       [] summaryCalls[c].body = "noSuccess" ->
                              "Failed to fetch evaluation summary"
                       [] OTHER -> "Error connecting to server")
    /\ loading' = Kept(loading, FALSE)
    /\ UNCHANGED <<metricsMounted, autoRefresh, refreshTimer, resets>>
    /\ UNCHANGED <<healthVars, staleEffect, nonTimerVars>>

\* Click on the reset button (rendered when summary is set): resetMetrics up
\* to await fetch.
ClickReset ==
    /\ metricsMounted
    /\ summary # "null"
    /\ resets = 0
    /\ resets' = 1
    /\ UNCHANGED <<metricsMounted, autoRefresh, refreshTimer, loading, metricsError,
                   summary, summaryCalls>>
    /\ UNCHANGED <<healthVars, staleEffect, nonTimerVars>>

\* The request of resetMetrics settles: with data.success, setSummary(null)
\* and setAutoRefresh(false), whose render clears the interval; otherwise an
\* alert.
ResetSettled ==
    /\ resets > 0
    /\ resets' = resets - 1
    /\ \E success \in BOOLEAN :
          IF success /\ metricsMounted
          THEN /\ summary' = "null"
               /\ autoRefresh' = FALSE
               /\ RefreshEffect(FALSE)
          ELSE UNCHANGED <<summary, autoRefresh, refreshTimer>>
    /\ UNCHANGED <<metricsMounted, loading, metricsError, summaryCalls>>
    /\ UNCHANGED <<healthVars, staleEffect, nonTimerVars>>

\* An unmount that leaves the interval set.
MetricsUnmountKeepsTimer ==
    /\ metricsMounted
    /\ metricsMounted' = FALSE
    /\ staleEffect' = TRUE
    /\ UNCHANGED <<autoRefresh, refreshTimer, loading, metricsError, summary,
                   summaryCalls, resets>>
    /\ UNCHANGED <<healthVars, nonTimerVars>>

\* Click on Hide Metrics in Home, setShowEvaluation(false): Home renders
\* and EvaluationMetrics unmounts, which runs the cleanup of the effect.
MetricsUnmount ==
    /\ metricsMounted
    /\ metricsMounted' = FALSE
    /\ refreshTimer' = FALSE
    /\ staleEffect' = TRUE
    /\ UNCHANGED <<autoRefresh, loading, metricsError, summary, summaryCalls, resets>>
    /\ UNCHANGED <<healthVars, nonTimerVars>>

(***************************************************************************)
(* Health probe and timers: claims                                         *)
(***************************************************************************)
\* Probe p ends in this step, in a mounted component.
ProbeEnds(p) ==
    /\ healthMounted
    /\ probes[p].stage # "done"
    /\ probes'[p].stage = "done"

\* C22 as claimed: the probe that ends sets the reachable signal to true if
\* it read status 200 and a JSON body, and to false after anything else (a
\* non-200 status, a non-JSON body, a network failure, a timeout).
C22_ReachableOnly200Json ==
    [][\A p \in DOMAIN probes :
          ProbeEnds(p) =>
             isConnected' = (probes[p].status = 200 /\ probes[p].body = "json")]_vars

\* C22 amended: the probe that ends sets the reachable signal to true if it
\* read a status from 200 to 299 and a JSON body, and to false after
\* anything else; a body is read only from a response with such a status.
C22_ReachableIffOkJson ==
    /\ [][\A p \in DOMAIN probes :
             ProbeEnds(p) =>
                isConnected' = (probes[p].status \in 200..299 /\ probes[p].body = "json")]_vars
    /\ [](\A p \in DOMAIN probes :
             probes[p].stage = "json" => probes[p].status \in 200..299)

\* A probe timed out and the next one found the backend.
C22_Witness ==
    /\ healthMounted
    /\ Len(probes) = 2
    /\ probes[1].outcome = "timeout"
    /\ probes[2].outcome = "ok"
    /\ isConnected

\* C28: the connected flag changes only in the handlers of the socket's
\* connect and disconnect events (the disconnect event of the effect's
\* cleanup included), and the reachable flag of the health-probe variant
\* only in the step that ends a probe; no recording, mode or playback
\* operation writes either.
C28_ConnectedByTransportOnly ==
    /\ [][connected' # connected =>
              IF connected' THEN SocketConnect ELSE (SocketDisconnect \/ SocketEffect)]_vars
    /\ [][isConnected' # isConnected => \E p \in DOMAIN probes : ProbeEnds(p)]_vars

\* C28 witness: a streaming recording was started on the connected socket,
\* the connection was lost, and the user stopped the recording; the flag is
\* false as the disconnect event left it.
C28_Witness ==
    /\ ~connected /\ sockPhase = "retrying"
    /\ ~isRecording
    /\ Len(sessions) = 1 /\ sessions[1].kind = "realtime" /\ sessions[1].tracks = "stopped"
    /\ Len(emitted) = 1 /\ emitted[1].type = "start_translation"

\* The fetchSummary calls the interval has made.
TimerCalls(calls) == {c \in DOMAIN calls : calls[c].by = "timer"}

\* C30: the health interval is set while the recorder is mounted and
\* cleared when it unmounts, and a probe is started only in a mounted
\* recorder; the auto-refresh interval is set exactly while the metrics
\* panel is mounted with auto-refresh on, and the interval starts a fetch
\* only then.
C30_TimersCancelled ==
    /\ [](healthTimer <=> healthMounted)
    /\ [][Len(probes') > Len(probes) => (healthMounted /\ healthMounted')]_vars
    /\ [](refreshTimer <=> (metricsMounted /\ autoRefresh))
    /\ [][TimerCalls(summaryCalls') # TimerCalls(summaryCalls) =>
              (metricsMounted /\ autoRefresh /\ metricsMounted' /\ autoRefresh')]_vars

\* C30 witness: both intervals have fired once (a second probe, a fetch made
\* by the auto-refresh interval) and both components have unmounted since,
\* auto-refresh still being on: no interval is left.
C30_Witness ==
    /\ ~healthMounted /\ ~healthTimer
    /\ ~metricsMounted /\ autoRefresh /\ ~refreshTimer
    /\ Len(probes) = 2
    /\ Len(summaryCalls) = 1 /\ summaryCalls[1].by = "timer"

(***************************************************************************)
(* Parts that a specification does not exercise stay in their initial state *)
(***************************************************************************)
InitChunker ==
    /\ isRecording = FALSE
    /\ connected = FALSE
    /\ sampleRate = 0
    /\ audioBuffer = <<>>
    /\ captured = 0
    /\ emitted = <<>>
    /\ sessionOver = FALSE
    /\ windowStart = 0

InitRec1 ==
    /\ blobStage = <<>>
    /\ rec1Sent = <<>>

InitEncIdle ==
    /\ encBytes = <<>>
    /\ encText = <<>>
    /\ decBytes = <<>>
    /\ encStage = "input"

InitQuantIdle ==
    /\ qIn = [kind |-> "finite", num |-> 0, den |-> 1]
    /\ qOut = 0
    /\ qStage = "input"

\* Neither the health-probe variant nor EvaluationMetrics is mounted.
InitTimersIdle ==
    /\ isConnected = FALSE
    /\ healthMounted = FALSE
    /\ healthTimer = FALSE
    /\ probes = <<>>
    /\ metricsMounted = FALSE
    /\ autoRefresh = FALSE
    /\ refreshTimer = FALSE
    /\ loading = FALSE
    /\ metricsError = ""
    /\ summary = "null"
    /\ summaryCalls = <<>>
    /\ resets = 0

InitRecIdle ==
    /\ InitRec
    /\ hasMediaDevices = TRUE
    /\ webmSupported = TRUE

Init ==
    /\ InitDisp
    /\ InitSock
    /\ InitTimersIdle
    /\ InitChunker
    /\ InitRec1
    /\ InitEncIdle
    /\ InitQuantIdle
    /\ InitRecIdle

Next ==
    \/ HandleTranslation
    \/ ClearResults
    \/ Commit
    \/ PlayAudio
    \/ StopAudio
    \/ LoadOk
    \/ Ended
    \/ MediaError
    \/ PlayRejected

Spec == Init /\ [][Next]_vars

NextChunker ==
    \/ SocketConnect
    \/ SocketDisconnect
    \/ StartRecordingRealtime
    \/ OnAudioProcess
    \/ StopRecording

SpecChunker == Init /\ [][NextChunker]_vars

NextRec1 ==
    \/ DataAvailable
    \/ ArrayBufferResolved
    \/ DecodeResolved
    \/ DecodeRejected

SpecRec1 == Init /\ [][NextRec1]_vars

InitEncoder ==
    /\ InitDisp
    /\ InitSock
    /\ InitTimersIdle
    /\ InitChunker
    /\ InitRec1
    /\ InitEnc
    /\ InitQuantIdle
    /\ InitRecIdle

NextEnc ==
    \/ Encode
    \/ Decode

SpecEnc == InitEncoder /\ [][NextEnc]_vars

InitQuantizer ==
    /\ InitDisp
    /\ InitSock
    /\ InitTimersIdle
    /\ InitChunker
    /\ InitRec1
    /\ InitEncIdle
    /\ InitQuant
    /\ InitRecIdle

NextQuant ==
    \/ QuantizeSample

SpecQuant == InitQuantizer /\ [][NextQuant]_vars

\* The browser of the run: with or without navigator.mediaDevices, with or
\* without audio/webm recording.
InitRecorder ==
    /\ InitDisp
    /\ InitSock
    /\ InitTimersIdle
    /\ InitChunker
    /\ InitRec1
    /\ InitEncIdle
    /\ InitQuantIdle
    /\ InitRec
    /\ hasMediaDevices \in BOOLEAN
    /\ webmSupported \in BOOLEAN

NextRec ==
    \/ SocketConnect
    \/ SocketDisconnect
    \/ SetMode
    \/ StartRecording
    \/ GetUserMediaRejected
    \/ GetUserMediaResolved
    \/ ClickStop
    \/ RecorderDataAvailable
    \/ RecorderStop
    \/ FetchRejected
    \/ FetchResolved
    \/ JsonSettled
    \/ TranslationResult
    \/ SocketError
    \/ TranslationStopped

SpecRec == InitRecorder /\ [][NextRec]_vars

\* A streaming recording with the socket effect and the connection policy.
NextSock ==
    \/ SocketConnect
    \/ SocketDisconnect
    \/ ConnectFails
    \/ HomeRender
    \/ SocketEffect
    \/ StartRecordingRealtime
    \/ OnAudioProcess
    \/ StopRecording
    \/ TranslationResult

SpecSock == Init /\ [][NextSock]_vars

\* Both components are mounted: the health effect has called checkHealth and
\* set its interval; EvaluationMetrics is in its initial state.
InitTimers ==
    /\ InitDisp
    /\ InitSock
    /\ InitChunker
    /\ InitRec1
    /\ InitEncIdle
    /\ InitQuantIdle
    /\ InitRecIdle
    /\ isConnected = FALSE
    /\ healthMounted = TRUE
    /\ healthTimer = TRUE
    /\ probes = <<Probe>>
    /\ metricsMounted = TRUE
    /\ autoRefresh = FALSE
    /\ refreshTimer = FALSE
    /\ loading = FALSE
    /\ metricsError = ""
    /\ summary = "null"
    /\ summaryCalls = <<>>
    /\ resets = 0

NextTimers ==
    \/ HealthTick
    \/ ProbeFetchRejected
    \/ ProbeFetchResolved
    \/ ProbeJsonSettled
    \/ HealthUnmount
    \/ RefreshTick
    \/ ClickRefresh
    \/ ToggleAutoRefresh
    \/ SummaryFetchRejected
    \/ SummaryFetchResolved
    \/ SummaryJsonSettled
    \/ ClickReset
    \/ ResetSettled
    \/ MetricsUnmount

SpecTimers == InitTimers /\ [][NextTimers]_vars

\* The browser delivers the events of a stopped MediaRecorder, and fetch and
\* response.json() settle.
SpecRecLive ==
    /\ SpecRec
    /\ WF_vars(RecorderDataAvailable)
    /\ WF_vars(RecorderStop)
    /\ WF_vars(FetchRejected \/ FetchResolved)
    /\ WF_vars(JsonSettled)

\* React commits every pending render, and every element that is loading or
\* playing raises its next event.
SpecDispLive ==
    /\ Spec
    /\ WF_vars(Commit)
    /\ WF_vars(LoadOk)
    /\ WF_vars(Ended)
    /\ WF_vars(MediaError)
    /\ WF_vars(PlayRejected)

\* SpecRecLive with a backend that answers every stop_translation it
\* receives while the connection lasts.
SpecRecAck ==
    /\ SpecRecLive
    /\ WF_vars(TranslationStopped)

\* The first variant's record button with its socket.
NextButton ==
    \/ SocketConnect
    \/ SocketDisconnect
    \/ ConnectFails
    \/ SocketEffect
    \/ ToggleStart
    \/ FirstGetUserMediaRejected
    \/ FirstGetUserMediaResolved
    \/ ToggleStop

SpecButton == InitRecorder /\ [][NextButton]_vars

=============================================================================
